---- MODULE Spec2Model ----
(***************************************************************************)
(* rpncalc: the tagged stack-machine calculator (calc.js), its exact       *)
(* rational arithmetic (rat.js) and the undo/redo and reactor wrappers     *)
(* (fp.js).  Every calculator method is a pure function state -> state     *)
(* that may throw; a call is modelled as an operator returning either      *)
(* Ret(v) or Throw(e).                                                     *)
(***************************************************************************)
EXTENDS Integers, Sequences, FiniteSets, TLC

(***************************************************************************)
(* Bounds of the model.                                                    *)
(***************************************************************************)
\* number of digit tokens folded into one accumulator register
MaxDigits == 2
\* number of history entries (successful wrapped calls) explored under Spec
MaxHistory == 2
\* number of returning calls explored under SpecCalc
MaxCalls == 4
\* largest mantissa magnitude of a stack number kept in the model
MaxMant == 4096

(***************************************************************************)
(* Outcome of a call: a returned value or a thrown exception.              *)
(***************************************************************************)
Ret(v) == [ok |-> TRUE, val |-> v]
Throw(e) == [ok |-> FALSE, err |-> e]

\* sequencing of two calls: the second runs only when the first returned
Bind(r, F(_)) == IF r.ok THEN F(r.val) ELSE r

\* naming of an outcome: const v = ...; F(v)
Let(v, F(_)) == F(v)

(***************************************************************************)
(* JS Numbers (IEEE-754 doubles).  A finite double is m * 2^e with m odd   *)
(* (or m = 0, e = 0); this is exactly the decomposition frexp computes.    *)
(* Exponent InfExp marks the non-finite values: m = 1 Infinity,            *)
(* m = -1 -Infinity, m = 0 NaN.  A result whose exact value would need     *)
(* rounding that the model does not compute is Unmodelled.                 *)
(***************************************************************************)
InfExp == 1024

Zero == [m |-> 0, e |-> 0]
One == [m |-> 1, e |-> 0]
Infinity == [m |-> 1, e |-> InfExp]
NegInfinity == [m |-> -1, e |-> InfExp]
NaN == [m |-> 0, e |-> InfExp]
Unmodelled == [m |-> 0, e |-> InfExp + 1]

IsNumber(x) == DOMAIN x = {"m", "e"}
IsModelled(x) == x.e <= InfExp
IsNaN(x) == x = NaN
IsFinite(x) == x.e < InfExp
IsInf(x) == x.e = InfExp /\ x.m # 0

Abs(n) == IF n < 0 THEN -n ELSE n
Sign(n) == IF n < 0 THEN -1 ELSE IF n > 0 THEN 1 ELSE 0
Min(a, b) == IF a <= b THEN a ELSE b
Max(a, b) == IF a >= b THEN a ELSE b

RECURSIVE Pow(_, _)
Pow(b, k) == IF k <= 0 THEN 1 ELSE b * Pow(b, k - 1)

\* number of binary digits of n >= 0
RECURSIVE BitLen(_)
BitLen(n) == IF n <= 0 THEN 0 ELSE 1 + BitLen(n \div 2)

\* number of decimal digits of the numeral of n >= 0
RECURSIVE DecLen(_)
DecLen(n) == IF n < 10 THEN 1 ELSE 1 + DecLen(n \div 10)

\* m * 2^e with the factors of two moved from the mantissa to the exponent
RECURSIVE Norm(_, _)
Norm(m, e) ==
  IF m = 0 THEN Zero
  ELSE IF m % 2 = 0 THEN Norm(Sign(m) * (Abs(m) \div 2), e + 1)
  ELSE [m |-> m, e |-> e]

\* the double nearest to m * 2^e (exact, or overflowed to an infinity)
Fin(m, e) ==
  LET n == Norm(m, e) IN
  IF m = 0 THEN Zero
  ELSE IF n.e + BitLen(Abs(n.m)) > InfExp
       THEN (IF m > 0 THEN Infinity ELSE NegInfinity)
  ELSE IF n.e < -(InfExp + 50) THEN Unmodelled
  ELSE n

FromInt(n) == Fin(n, 0)

\* Number.isInteger
IsInteger(x) == IsFinite(x) /\ (x.m = 0 \/ x.e >= 0)

NNeg(x) ==
  IF ~IsModelled(x) THEN Unmodelled ELSE [m |-> -x.m, e |-> x.e]

NAbs(x) ==
  IF ~IsModelled(x) THEN Unmodelled ELSE [m |-> Abs(x.m), e |-> x.e]

\* x * y
NMul(x, y) ==
  IF ~IsModelled(x) \/ ~IsModelled(y) THEN Unmodelled
  ELSE IF IsNaN(x) \/ IsNaN(y) THEN NaN
  ELSE IF IsInf(x) \/ IsInf(y)
       THEN (IF x.m = 0 \/ y.m = 0 THEN NaN
             ELSE IF Sign(x.m) * Sign(y.m) > 0 THEN Infinity ELSE NegInfinity)
  ELSE IF Abs(x.m) > MaxMant * 8 \/ Abs(y.m) > MaxMant * 8 THEN Unmodelled
  ELSE Fin(x.m * y.m, x.e + y.e)

\* x + y
NAdd(x, y) ==
  IF ~IsModelled(x) \/ ~IsModelled(y) THEN Unmodelled
  ELSE IF IsNaN(x) \/ IsNaN(y) THEN NaN
  ELSE IF IsInf(x) /\ IsInf(y) THEN (IF x.m = y.m THEN x ELSE NaN)
  ELSE IF IsInf(x) THEN x
  ELSE IF IsInf(y) THEN y
  ELSE IF x.m = 0 THEN y
  ELSE IF y.m = 0 THEN x
  ELSE IF Abs(x.m) > MaxMant * 8 \/ Abs(y.m) > MaxMant * 8 THEN Unmodelled
  ELSE LET lo == Min(x.e, y.e)
           gap == Abs(x.e - y.e)
       IN  IF gap <= 12
           THEN Fin(x.m * Pow(2, x.e - lo) + y.m * Pow(2, y.e - lo), lo)
           ELSE IF gap >= 70
           THEN (IF x.e > y.e THEN x ELSE y)
           ELSE Unmodelled

NSub(x, y) == NAdd(x, NNeg(y))

\* x / y
NDiv(x, y) ==
  IF ~IsModelled(x) \/ ~IsModelled(y) THEN Unmodelled
  ELSE IF IsNaN(x) \/ IsNaN(y) THEN NaN
  ELSE IF IsInf(x) /\ IsInf(y) THEN NaN
  ELSE IF IsInf(x)
       THEN (IF Sign(x.m) * Sign(y.m) >= 0 THEN Infinity ELSE NegInfinity)
  ELSE IF IsInf(y) THEN Zero
  ELSE IF y.m = 0
       THEN (IF x.m = 0 THEN NaN ELSE IF x.m > 0 THEN Infinity ELSE NegInfinity)
  ELSE IF x.m = 0 THEN Zero
  ELSE IF Abs(x.m) % Abs(y.m) = 0
       THEN Fin(Sign(x.m) * Sign(y.m) * (Abs(x.m) \div Abs(y.m)), x.e - y.e)
  ELSE Unmodelled

\* |x| < |y| for finite x, y
AbsLt(x, y) ==
  IF y.m = 0 THEN FALSE
  ELSE IF x.m = 0 THEN TRUE
  ELSE LET bx == x.e + BitLen(Abs(x.m))
           by == y.e + BitLen(Abs(y.m))
       IN  IF bx # by THEN bx < by
           ELSE LET lo == Min(x.e, y.e) IN
                \* equal bit positions: the gap is below the mantissa width
                Abs(x.m) * Pow(2, x.e - lo) < Abs(y.m) * Pow(2, y.e - lo)

\* 2^k modulo n, by repeated squaring
RECURSIVE PowMod2(_, _)
PowMod2(k, n) ==
  IF k = 0 THEN 1 % n
  ELSE LET h == PowMod2(k \div 2, n)
           s == (h * h) % n
       IN  IF k % 2 = 0 THEN s ELSE (2 * s) % n

\* x % y of JS on integers: the sign of the result is the sign of x
NMod(x, y) ==
  IF ~IsModelled(x) \/ ~IsModelled(y) THEN Unmodelled
  ELSE IF ~IsFinite(x) \/ IsNaN(y) \/ y.m = 0 THEN NaN
  ELSE IF IsInf(y) THEN x
  ELSE IF x.m = 0 THEN Zero
  ELSE IF AbsLt(x, y) THEN x
  ELSE IF ~IsInteger(x) \/ ~IsInteger(y) THEN Unmodelled
  ELSE LET c == Min(x.e, y.e)
           xe == x.e - c
           ye == y.e - c
       IN  IF ye + BitLen(Abs(y.m)) > 15 \/ Abs(x.m) > MaxMant * 8
           THEN Unmodelled
           ELSE LET d == Abs(y.m) * Pow(2, ye)
                    r == ((Abs(x.m) % d) * PowMod2(xe, d)) % d
                IN  Fin(Sign(x.m) * r, c)

(***************************************************************************)
(* rat.js: exact rationals {num, denom} over JS Numbers.                   *)
(***************************************************************************)
\* the JS value undefined
Undefined == [undefined |-> TRUE]
IsUndefined(v) == DOMAIN v = {"undefined"}
IsRat(v) == DOMAIN v = {"num", "denom"}

\* property reads r.num and r.denom; a missing property reads as undefined,
\* which every arithmetic operator of JS turns into NaN
NumOf(r) == IF IsRat(r) THEN r.num ELSE NaN
DenomOf(r) == IF IsRat(r) THEN r.denom ELSE NaN

assertInt(value) ==
  IF IsNumber(value) /\ ~IsModelled(value) THEN Throw("unmodelled")
  ELSE IF IsNumber(value) /\ IsInteger(value) THEN Ret(value)
  ELSE Throw("Error: is not an integer!")

cons(num, denom) ==
  Bind(assertInt(num), LAMBDA n:
  Bind(assertInt(denom), LAMBDA d:
  Ret([num |-> n, denom |-> d])))

fromInt(num) == Bind(assertInt(num), LAMBDA n: Ret([num |-> n, denom |-> One]))

\* {exponent, mantissa} with mantissa * 2^exponent = x and an integer
\* mantissa.  The bytes of 0 carry the biased exponent 0 and an all-zero
\* fraction, which the code reads as exponent -1023 and mantissa 1.0.
frexp(x) ==
  IF x.m = 0 THEN [exponent |-> -1023, mantissa |-> One]
  ELSE [exponent |-> x.e, mantissa |-> FromInt(x.m)]

\* 1 << k: the shift count is taken modulo 32 and the result is an int32
Shl1(k) == IF k % 32 = 31 THEN [m |-> -1, e |-> 31] ELSE [m |-> 1, e |-> k % 32]

RECURSIVE gcd(_, _)
gcd(a, b) ==
  IF ~IsModelled(a) \/ ~IsModelled(b) \/ IsNaN(b) THEN Unmodelled
  ELSE IF b = Zero THEN NAbs(a)
  ELSE gcd(b, NMod(a, b))

simplify(r) ==
  IF IsUndefined(r) THEN Throw("TypeError")
  ELSE
  Bind(assertInt(NumOf(r)), LAMBDA n:
  Bind(assertInt(DenomOf(r)), LAMBDA d:
    LET g == gcd(NAbs(n), NAbs(d)) IN cons(NDiv(n, g), NDiv(d, g))))

\* integer, num and denom are the accumulator's registers
\* fromProper, were it to leave the whole part out
fromProper_fraction(p) == cons(FromInt(p.num), FromInt(p.denom))

fromProper(p) ==
  cons(FromInt(p.integer * p.denom + p.num), FromInt(p.denom))

\* an integer Number small enough for num / denom to round to no other
\* integer than the exact quotient's floor, and its value
IsSmallInt(x) ==
  IF IsNumber(x) THEN IsInteger(x) /\ x.e + BitLen(Abs(x.m)) <= 20 ELSE FALSE
IntOf(x) == x.m * Pow(2, x.e)

\* Math.floor(n / d) and n % d on integers, d # 0; the remainder of JS takes
\* the sign of the dividend
FloorDiv(n, d) == (Sign(d) * n) \div Abs(d)
Rem(n, d) == Sign(n) * (Abs(n) % Abs(d))

\* toProper(value); the registers of the proper fraction are integers, held
\* as the accumulator holds them
toProper(value) ==
  Bind(simplify(value), LAMBDA s:
    IF IsSmallInt(s.num) /\ IsSmallInt(s.denom) /\ s.denom # Zero
    THEN Ret([integer |-> FloorDiv(IntOf(s.num), IntOf(s.denom)),
              num |-> Rem(IntOf(s.num), IntOf(s.denom)),
              denom |-> IntOf(s.denom)])
    ELSE Throw("unmodelled"))

toFloat(value) ==
  Bind(simplify(value), LAMBDA s: Ret(NDiv(s.num, s.denom)))

fromFloat(value) ==
  IF ~IsNumber(value) THEN Throw("Error: is already a fraction")
  ELSE IF ~IsModelled(value) THEN Throw("unmodelled")
  ELSE IF ~IsFinite(value) THEN Throw("Error: cannot be expressed as a ratio!")
  ELSE LET fr == frexp(value) IN
       IF fr.exponent >= 0
       THEN cons(NMul(fr.mantissa, Shl1(fr.exponent)), One)
       ELSE Bind(cons(fr.mantissa, [m |-> 1, e |-> -fr.exponent]), simplify)

rat_add(a, b) ==
  IF IsUndefined(a) \/ IsUndefined(b) THEN Throw("TypeError")
  ELSE cons(NAdd(NMul(NumOf(a), DenomOf(b)), NMul(NumOf(b), DenomOf(a))),
            NMul(DenomOf(a), DenomOf(b)))

rat_sub(a, b) ==
  IF IsUndefined(a) \/ IsUndefined(b) THEN Throw("TypeError")
  ELSE cons(NSub(NMul(NumOf(a), DenomOf(b)), NMul(NumOf(b), DenomOf(a))),
            NMul(DenomOf(a), DenomOf(b)))

rat_mul(a, b) ==
  IF IsUndefined(a) \/ IsUndefined(b) THEN Throw("TypeError")
  ELSE cons(NMul(NumOf(a), NumOf(b)), NMul(DenomOf(a), DenomOf(b)))

rat_inv(r) ==
  IF IsUndefined(r) THEN Throw("TypeError") ELSE cons(DenomOf(r), NumOf(r))

\* the argument inv(b) is evaluated before mul reads a
rat_div(a, b) == Bind(rat_inv(b), LAMBDA i: rat_mul(a, i))

rat_neg(r) ==
  IF IsUndefined(r) THEN Throw("TypeError") ELSE cons(NNeg(NumOf(r)), DenomOf(r))

rat_abs(r) ==
  IF IsUndefined(r) THEN Throw("TypeError") ELSE cons(NAbs(NumOf(r)), DenomOf(r))

\* the for loop of approx from numerator i on: num is the best numerator so
\* far and bestErr its error; error is abs(sub(proper, {num: i, denom})),
\* which reads proper.num and proper.denom, and lt cross-multiplies
RECURSIVE approx_scan(_, _, _, _, _)
approx_scan(proper, denom, i, num, bestErr) ==
  IF i > denom THEN num
  ELSE LET error == [num |-> Abs(proper.num * denom - i * proper.denom),
                     denom |-> proper.denom * denom]
       IN  IF error.num * bestErr.denom < bestErr.num * error.denom
           THEN approx_scan(proper, denom, i + 1, i, error)
           ELSE approx_scan(proper, denom, i + 1, num, bestErr)

\* approx(value, denom): the nearest approximation of value with the given
\* denominator
approx(value, denom) ==
  Bind(toProper(value), LAMBDA proper:
    IF ~IsNumber(denom) THEN Throw("Error: is not an integer")
    ELSE IF ~IsInteger(denom) THEN Throw("Error: is not an integer")
    ELSE IF ~IsSmallInt(denom) THEN Throw("unmodelled")
    ELSE Let(IntOf(denom), LAMBDA d:
         Let(approx_scan(proper, d, 0, 0, [num |-> 1, denom |-> 1]), LAMBDA num:
           Bind(cons(FromInt(proper.integer * d + num), FromInt(d)), simplify))))

(***************************************************************************)
(* calc.js: the user errors.  Each is a distinct exported sentinel; the    *)
(* names decimal_in_word and frac_in_letter are thrown by the accumulator  *)
(* but declared nowhere, so throwing them raises a ReferenceError.         *)
(***************************************************************************)
underflow == "UserError: Stack Underflow"
overflow == "UserError: Stack Overflow"
not_implemented == "UserError: Not implemented."
incomplete_frac == "ValueError: Incomplete Fraction."
empty_accum == "ValueError: Accumulator is empty."
extra_decimal == "IllegalToken: Already have decimal."
not_a_letter == "IllegalToken: Not a letter."
decimal_in_frac == "IllegalToken: decimal point in fraction"
frac_in_float == "IllegalToken: fraction separator in float"
extra_num == "IllegalToken: Already in numerator."
extra_denom == "IllegalToken: Already in denominator."
not_a_digit == "IllegalToken: Not a digit."
decimal_in_word == "ReferenceError: decimal_in_word is not defined"
frac_in_letter == "ReferenceError: frac_in_letter is not defined"

UserErrors ==
  {underflow, overflow, not_implemented, incomplete_frac, empty_accum,
   extra_decimal, not_a_letter, decimal_in_frac, frac_in_float, extra_num,
   extra_denom, not_a_digit}

(***************************************************************************)
(* calc.js: tagged stack values.                                           *)
(***************************************************************************)
\* (a string payload is held as the record Str(s), so that every payload of
\* the model is a record)
Str(s) == [str |-> s]

tag(t, value) == [tag |-> t, value |-> value]

\* destructuring {tag, value} of undefined is a TypeError

(***************************************************************************)
(* calc.js: the input accumulator {type, val}.  The register of a dec is   *)
(* val.value and the text of a var is val.id.                              *)
(***************************************************************************)
empty == [type |-> "empty"]

fold_digit(reg, d) == reg * 10 + d

clear(state) == Ret(empty)

digit(state, d) ==
  CASE state.type = "empty" -> Ret([type |-> "dec", val |-> [value |-> d]])
    [] state.type = "dec" ->
         Ret([type |-> "dec", val |-> [value |-> fold_digit(state.val.value, d)]])
    [] state.type = "float" ->
         Ret([type |-> "float",
              val |-> [state.val EXCEPT !.frac = fold_digit(state.val.frac, d)]])
    [] state.type = "var" ->
         Ret([type |-> "var", val |-> [id |-> state.val.id \o ToString(d)]])
    [] state.type = "num" ->
         Ret([type |-> "num",
              val |-> [state.val EXCEPT !.num = fold_digit(state.val.num, d)]])
    [] state.type = "denom" ->
         Ret([type |-> "denom",
              val |-> [state.val EXCEPT !.denom = fold_digit(state.val.denom, d)]])

decimal(state) ==
  CASE state.type = "empty" ->
         Ret([type |-> "float", val |-> [integer |-> 0, frac |-> 0]])
    [] state.type = "dec" ->
         Ret([type |-> "float", val |-> [integer |-> state.val.value, frac |-> 0]])
    [] state.type = "float" -> Throw(underflow)
    [] state.type = "var" -> Throw(decimal_in_word)
    [] state.type = "num" -> Throw(decimal_in_frac)
    [] state.type = "denom" -> Throw(decimal_in_frac)

\* num, were it legal from Dec alone
num_from_dec(state) ==
  CASE state.type = "empty" -> Throw(incomplete_frac)
    [] state.type = "dec" ->
         Ret([type |-> "num", val |-> [integer |-> state.val.value, num |-> 0]])
    [] state.type = "float" -> Throw(frac_in_float)
    [] state.type = "var" -> Throw(not_a_letter)
    [] state.type = "num" -> Throw(extra_num)
    [] state.type = "denom" -> Throw(extra_num)

num(state) ==
  CASE state.type = "empty" ->
         Ret([type |-> "num", val |-> [integer |-> 0, num |-> 0]])
    [] state.type = "dec" ->
         Ret([type |-> "num", val |-> [integer |-> state.val.value, num |-> 0]])
    [] state.type = "float" -> Throw(frac_in_float)
    [] state.type = "var" -> Throw(not_a_letter)
    [] state.type = "num" -> Throw(extra_num)
    [] state.type = "denom" -> Throw(extra_num)

\* denom, were it legal from Num alone
denom_from_num(state) ==
  CASE state.type = "empty" -> Throw(incomplete_frac)
    [] state.type = "dec" -> Throw(incomplete_frac)
    [] state.type = "float" -> Throw(frac_in_float)
    [] state.type = "var" -> Throw(frac_in_letter)
    [] state.type = "num" ->
         Ret([type |-> "denom",
              val |-> [integer |-> state.val.integer, num |-> state.val.num,
                       denom |-> 0]])
    [] state.type = "denom" -> Throw(extra_denom)

denom(state) ==
  CASE state.type = "empty" -> Throw(incomplete_frac)
    [] state.type = "dec" ->
         Ret([type |-> "denom",
              val |-> [integer |-> 0, num |-> state.val.value, denom |-> 0]])
    [] state.type = "float" -> Throw(frac_in_float)
    [] state.type = "var" -> Throw(frac_in_letter)
    [] state.type = "num" ->
         Ret([type |-> "denom",
              val |-> [integer |-> state.val.integer, num |-> state.val.num,
                       denom |-> 0]])
    [] state.type = "denom" -> Throw(extra_denom)

letter(state, l) ==
  CASE state.type = "empty" -> Ret([type |-> "var", val |-> [id |-> l]])
    [] state.type = "var" ->
         Ret([type |-> "var", val |-> [id |-> state.val.id \o l]])
    [] OTHER -> Throw(not_a_digit)

\* parseFloat of the numeral `${integer}.${frac}`: frac is a number, so
\* the numeral has as many fraction digits as the numeral of frac
parseFloat(integer, frac) ==
  LET k == DecLen(frac) IN
  IF frac % Pow(5, k) = 0
  THEN Fin(integer * Pow(2, k) + frac \div Pow(5, k), -k)
  ELSE Unmodelled

value(state) ==
  CASE state.type = "empty" -> Throw(empty_accum)
    [] state.type = "dec" -> Ret(tag("float", FromInt(state.val.value)))
    [] state.type = "float" ->
         Ret(tag("float", parseFloat(state.val.integer, state.val.frac)))
    [] state.type = "var" -> Ret(tag("word", Str(state.val.id)))
    [] state.type = "num" -> Throw(incomplete_frac)
    [] state.type = "denom" ->
         Bind(fromProper(state.val), LAMBDA r: Ret(tag("rat", r)))

isEmpty(state) == state.type = "empty"

(***************************************************************************)
(* calc.js: the polymorphic dispatch table.                                *)
(***************************************************************************)
PolyUnop == {"abs", "inv", "neg", "square"}
PolyBinop == {"add", "sub", "mul", "div", "approx"}
PolyMath ==
  {"acos", "asin", "atan", "atan2", "ceil", "cos", "exp", "floor", "fround",
   "ln", "sin", "sqrt", "tan", "log10", "log2", "log1p", "expm1", "cosh",
   "sinh", "tanh", "acosh", "asinh", "atanh", "cbrt"}
PolyBinmath == {"log", "pow"}
Divisors == {"f2", "f4", "f8", "f16"}
DivisorOf(name) ==
  CASE name = "f2" -> 2 [] name = "f4" -> 4 [] name = "f8" -> 8
    [] name = "f16" -> 16

NumTags == {"float", "rat"}

\* the signatures declared for a name
Signatures(name) ==
  CASE name \in PolyUnop \cup PolyMath \cup Divisors -> {<<t>> : t \in NumTags}
    [] name \in PolyBinop \cup PolyBinmath ->
         {<<t, u>> : t \in NumTags, u \in NumTags}
    [] name = "float" -> {<<"rat">>}
    [] name = "frac" -> {<<"float">>}
    [] name = "random" -> {<< >>}
    [] name = "trunc" -> {<<"float", "float">>}
    [] name = "sign" -> {<<"float">>}
    [] OTHER -> {}

\* dispatch.has([name, tags])
dispatch_has(name, tags) == tags \in Signatures(name)

\* the declared return tag of dispatch.get([name, tags])
dispatch_ret(name, tags) ==
  CASE name \in PolyUnop \cup PolyMath -> tags[1]
    [] name \in PolyBinop ->
         IF tags = <<"float", "float">> THEN "float" ELSE "rat"
    [] name \in PolyBinmath -> tags[1]
    [] name \in Divisors -> "rat"
    [] name = "float" -> "rat"
    [] name = "frac" -> "float"
    [] OTHER -> "float"

\* a float-tagged operand used as a number: an object operand becomes NaN
ToNumber(v) == IF IsNumber(v) THEN v ELSE NaN

\* the float implementation of a poly_unop or poly_binop
primF(name, vals) ==
  CASE name = "abs" -> Ret(NAbs(ToNumber(vals[1])))
    [] name = "inv" -> Ret(NDiv(One, ToNumber(vals[1])))
    [] name = "neg" -> Ret(NNeg(ToNumber(vals[1])))
    [] name = "square" -> Ret(NMul(ToNumber(vals[1]), ToNumber(vals[1])))
    [] name = "add" ->
         IF IsNumber(vals[1]) /\ IsNumber(vals[2])
         THEN Ret(NAdd(vals[1], vals[2])) ELSE Ret(Unmodelled)
    [] name = "sub" -> Ret(NSub(ToNumber(vals[1]), ToNumber(vals[2])))
    [] name = "mul" -> Ret(NMul(ToNumber(vals[1]), ToNumber(vals[2])))
    [] name = "div" -> Ret(NDiv(ToNumber(vals[1]), ToNumber(vals[2])))
    [] OTHER -> Throw("unmodelled")

\* the rational implementation of a poly_unop or poly_binop
ratF(name, vals) ==
  CASE name = "abs" -> rat_abs(vals[1])
    [] name = "inv" -> rat_inv(vals[1])
    [] name = "neg" -> rat_neg(vals[1])
    [] name = "square" -> rat_mul(vals[1], vals[1])
    [] name = "add" -> rat_add(vals[1], vals[2])
    [] name = "sub" -> rat_sub(vals[1], vals[2])
    [] name = "mul" -> rat_mul(vals[1], vals[2])
    [] name = "div" -> rat_div(vals[1], vals[2])
    [] OTHER -> Throw("unmodelled")

poly_unop(name, tags, vals) ==
  IF tags = <<"float">> THEN primF(name, vals) ELSE ratF(name, vals)

poly_binop(name, tags, vals) ==
  CASE tags = <<"float", "float">> -> primF(name, vals)
    [] tags = <<"float", "rat">> ->
         Bind(fromFloat(vals[1]), LAMBDA x: ratF(name, <<x, vals[2]>>))
    [] tags = <<"rat", "float">> ->
         Bind(fromFloat(vals[2]), LAMBDA y: ratF(name, <<vals[1], y>>))
    [] tags = <<"rat", "rat">> -> ratF(name, vals)

\* the rat row is rat.div itself, which the table calls with one argument
divisor(d, tags, vals) ==
  IF tags = <<"float">>
  THEN Bind(fromInt(FromInt(d)), LAMBDA dn:
       Bind(fromFloat(vals[1]), LAMBDA x: rat_div(x, dn)))
  ELSE rat_div(vals[1], Undefined)

\* func(...vals) of the entry dispatch.get([name, tags])
dispatch_call(name, tags, vals) ==
  CASE name \in PolyUnop -> poly_unop(name, tags, vals)
    [] name \in PolyBinop -> poly_binop(name, tags, vals)
    [] name \in Divisors -> divisor(DivisorOf(name), tags, vals)
    [] name = "float" -> toFloat(vals[1])
    [] name = "frac" -> fromFloat(vals[1])
    [] OTHER -> Throw("unmodelled")

\* the arity of each function: the common length of its signatures
\* (-1 stands for the undefined arity of a name the table does not have)
arities(name) ==
  IF Signatures(name) = {} THEN -1
  ELSE Len(CHOOSE sig \in Signatures(name) : TRUE)

\* stack.slice(from): a negative index counts from the end
SliceFrom(stack, from) ==
  LET start == IF from < 0 THEN Max(Len(stack) + from, 0) ELSE Min(from, Len(stack))
  IN  SubSeq(stack, start + 1, Len(stack))

\* stack.slice(0, to)
SliceTo(stack, to) ==
  LET end == IF to < 0 THEN Max(Len(stack) + to, 0) ELSE Min(to, Len(stack))
  IN  SubSeq(stack, 1, end)

\* split `arity` operands from stack; an undefined arity makes the pivot NaN
split(stack, arity) ==
  IF arity = -1
  THEN [rest |-> << >>, args |-> stack]
  ELSE LET pivot == Len(stack) - arity IN
       [rest |-> SliceTo(stack, pivot), args |-> SliceFrom(stack, pivot)]

apply(stack, name) ==
  LET arity == arities(name)
      sp == split(stack, arity)
      rest == sp.rest
      args == sp.args
  IN  IF \E i \in 1..Len(args) : IsUndefined(args[i]) THEN Throw("TypeError")
      ELSE LET tags == [i \in 1..Len(args) |-> args[i].tag]
               vals == [i \in 1..Len(args) |-> args[i].value]
           IN  IF dispatch_has(name, tags)
               THEN Bind(dispatch_call(name, tags, vals), LAMBDA v:
                      Ret(Append(rest, tag(dispatch_ret(name, tags), v))))
               ELSE Throw(not_implemented)

\* every name the dispatch table declares
AllNames ==
  PolyUnop \cup PolyBinop \cup PolyMath \cup PolyBinmath \cup Divisors
  \cup {"float", "frac", "random", "trunc", "sign"}

\* the property key an array of tags is converted to: its elements joined
\* by commas
KeyOf(args) ==
  IF Len(args) = 0 THEN ""
  ELSE IF Len(args) = 1 THEN args[1]
  ELSE args[1] \o "," \o args[2]

\* the keys of by_args, in the order the table inserts them
SignatureKeys ==
  <<"float", "rat", "float,float", "float,rat", "rat,float", "rat,rat", "">>

\* by_args[key]: the names collated under a key
by_args(key) ==
  {name \in AllNames : \E sig \in Signatures(name) : KeyOf(sig) = key}

\* check(args, expected), expected being a key of by_args, a string.  Neither
\* the source nor the language defines zip on arrays, so the second operand
\* of && raises a TypeError whenever it is evaluated.
check(args, expected) ==
  IF Len(args) # Len(expected) THEN Throw("TypeError") ELSE Ret(FALSE)

\* valid(stack): split is called without an arity, so got is the whole
\* stack; the result lists by_args[key] for the keys check accepts
valid(stack) ==
  LET got == split(stack, -1).args
      kept == SelectSeq(SignatureKeys, LAMBDA key:
                        check(got, key).ok /\ check(got, key).val)
  IN  IF \E i \in 1..Len(SignatureKeys) : ~check(got, SignatureKeys[i]).ok
      THEN Throw("TypeError")
      ELSE Ret([i \in 1..Len(kept) |-> by_args(kept[i])])

(***************************************************************************)
(* The units module: quantities of one dimension expressed in the units of *)
(* a system by counting change.  It calls rat.promote and Array zip, which *)
(* no file defines.                                                        *)
(***************************************************************************)
\* rat.gte(a, b): a.num * b.denom >= b.num * a.denom
rat_gte(a, b) ==
  NSub(NMul(NumOf(a), DenomOf(b)), NMul(NumOf(b), DenomOf(a))).m >= 0

\* count(amount, coin, coins): how many whole coins fit in amount
RECURSIVE count(_, _, _)
count(amount, coin, coins) ==
  IF rat_gte(amount, coin)
  THEN Bind(rat_sub(amount, coin), LAMBDA rest: count(rest, coin, coins + 1))
  ELSE Ret([amount |-> amount, coins |-> coins])

\* change(amount, coins): the count of every coin in turn, followed by the
\* amount left over when it is not zero
RECURSIVE change(_, _)
change(amount, coins) ==
  IF Len(coins) > 0
  THEN Bind(count(amount, coins[1], 0), LAMBDA result:
       Bind(change(result.amount, Tail(coins)), LAMBDA rest:
         Ret(<<FromInt(result.coins)>> \o rest)))
  ELSE IF amount.num # Zero THEN Ret(<<amount>>)
  ELSE Ret(<< >>)

\* the conversions table of the system `inches`: unit name -> factor
conversions ==
  [in |-> [num |-> One, denom |-> One],
   hd |-> [num |-> FromInt(4), denom |-> One],
   ft |-> [num |-> FromInt(12), denom |-> One],
   yd |-> [num |-> FromInt(36), denom |-> One]]

\* us.sort(cmp_unit); us.reverse(): the units by descending factor
RECURSIVE sort_reverse(_)
sort_reverse(us) ==
  IF Len(us) = 0 THEN << >>
  ELSE LET k == CHOOSE i \in 1..Len(us) :
                  \A j \in 1..Len(us) : rat_gte(conversions[us[i]], conversions[us[j]])
       IN  <<us[k]>> \o sort_reverse(SubSeq(us, 1, k - 1) \o SubSeq(us, k + 1, Len(us)))

\* using(q, ...us); the closing us.zip(counted) calls a method arrays do not
\* have
using(q, units) ==
  Let(sort_reverse(units), LAMBDA us:
    Bind(change(q.value, [i \in 1..Len(us) |-> conversions[us[i]]]), LAMBDA counted:
      Bind(IF Len(counted) > Len(us)
           THEN Bind(rat_div(counted[Len(counted)], conversions[us[Len(us)]]), simplify)
           ELSE Ret(Undefined), LAMBDA frac:
        Throw("TypeError"))))

(***************************************************************************)
(* calc.js: the calculator, a stack machine over                           *)
(* {stack, tape, defs, accum, showing}.                                    *)
(***************************************************************************)
\* The builtin constants are irrational doubles; no operation of the model
\* computes with them, so each is an opaque number of its own.
MathConst(i) == [m |-> i, e |-> InfExp + 1]

\* The keys "e" and "pi" stand for the source's "\u{1D486}" and "\u{1D70B}";
\* neither can be typed through letter(), whose inputs are Letters.
constants ==
  [k \in {"e", "pi", "LOG2E", "LOG10E", "LN2", "LN10", "SQRT2", "SQRT1_2"} |->
     tag("float",
         CASE k = "e" -> MathConst(1) [] k = "pi" -> MathConst(2)
           [] k = "LOG2E" -> MathConst(3) [] k = "LOG10E" -> MathConst(4)
           [] k = "LN2" -> MathConst(5) [] k = "LN10" -> MathConst(6)
           [] k = "SQRT2" -> MathConst(7) [] k = "SQRT1_2" -> MathConst(8))]

init ==
  [stack |-> << >>, tape |-> << >>, defs |-> constants, accum |-> empty,
   showing |-> "basic"]

\* the property key an object value is converted to
PropertyKey(v) == IF IsUndefined(v) THEN "undefined" ELSE "[object Object]"

\* state.defs[key]: undefined when the key is missing
Lookup(defs, key) == IF key \in DOMAIN defs THEN defs[key] ELSE Undefined

push(state, v) ==
  LET numeric == IF v.tag = "word" /\ ~IsUndefined(Lookup(state.defs, PropertyKey(v)))
                 THEN Lookup(state.defs, PropertyKey(v))
                 ELSE v
  IN  Ret([state EXCEPT !.stack = Append(state.stack, numeric),
                        !.tape = Append(state.tape, v)])

\* In frac mode a float value is pushed as a rational; there the cleared
\* accumulator is handed to push as a third argument, which push ignores.
enter(state) ==
  IF ~isEmpty(state.accum)
  THEN Bind(value(state.accum), LAMBDA v:
       Bind(clear(state.accum), LAMBDA accum:
         IF state.showing = "frac" /\ v.tag = "float"
         THEN Bind(fromFloat(v.value), LAMBDA r: push(state, tag("rat", r)))
         ELSE Bind(push(state, v), LAMBDA p: Ret([p EXCEPT !.accum = accum]))))
  ELSE Ret(state)

\* stack[i], undefined beyond the end
GetAt(stack, i) == IF i < Len(stack) THEN stack[i + 1] ELSE Undefined

\* stack[i] = v; assigning at the index length extends the array
SetAt(stack, i, v) ==
  IF i < Len(stack) THEN [stack EXCEPT ![i + 1] = v] ELSE Append(stack, v)

ExchEntry(A, B) == "exch(" \o ToString(A) \o ", " \o ToString(B) \o ")"

\* exch, were it to test for a negative index first
exch_underflow_first(state0, a, b) ==
  Bind(enter(state0), LAMBDA state:
    LET A == IF a < 0 THEN Len(state.stack) + a ELSE a
        B == IF b < 0 THEN Len(state.stack) + b ELSE b
    IN  IF Min(A, B) < 0 THEN Throw(underflow)
        ELSE IF Max(A, B) > Len(state.stack) THEN Throw(overflow)
        ELSE LET val_a == GetAt(state.stack, A)
                 val_b == GetAt(state.stack, B)
                 tape == Append(state.tape, tag("string", Str(ExchEntry(A, B))))
                 stack == SetAt(SetAt(state.stack, A, val_b), B, val_a)
             IN  Ret([state EXCEPT !.stack = stack, !.tape = tape]))

exch(state0, a, b) ==
  Bind(enter(state0), LAMBDA state:
    LET A == IF a < 0 THEN Len(state.stack) + a ELSE a
        B == IF b < 0 THEN Len(state.stack) + b ELSE b
    IN  IF Max(A, B) > Len(state.stack) THEN Throw(overflow)
        ELSE IF Min(A, B) < 0 THEN Throw(underflow)
        ELSE LET val_a == GetAt(state.stack, A)
                 val_b == GetAt(state.stack, B)
                 tape == Append(state.tape, tag("string", Str(ExchEntry(A, B))))
                 stack == SetAt(SetAt(state.stack, A, val_b), B, val_a)
             IN  Ret([state EXCEPT !.stack = stack, !.tape = tape]))

\* operator, were it to return the result alone, as a variadic builtin does
operator_whole_stack(state0, name) ==
  Bind(enter(state0), LAMBDA state:
    IF ~isEmpty(state.accum) THEN Throw("Accumulator must be empty.")
    ELSE Bind(apply(state.stack, name), LAMBDA stack:
           Ret([state EXCEPT !.stack = <<stack[Len(stack)]>>,
                             !.tape = Append(state.tape, tag("string", Str(name)))])))

operator(state0, name) ==
  Bind(enter(state0), LAMBDA state:
    IF ~isEmpty(state.accum) THEN Throw("Accumulator must be empty.")
    ELSE Bind(apply(state.stack, name), LAMBDA stack:
           Ret([state EXCEPT !.stack = stack,
                             !.tape = Append(state.tape, tag("string", Str(name)))])))

reset(state) == Ret(init)

\* store, were it to leave the tape as it is
store_untaped(state0) ==
  Bind(enter(state0), LAMBDA state:
    LET length == Len(state.stack)
        pivot == length - 2
    IN  IF length >= 2
        THEN LET v == state.stack[pivot + 1]
                 slot == state.stack[pivot + 2]
                 key == PropertyKey(slot)
                 defs == [k \in DOMAIN state.defs \cup {key} |->
                            IF k = key THEN v ELSE state.defs[k]]
             IN  Ret([state EXCEPT !.stack = SubSeq(state.stack, 1, pivot),
                                   !.defs = defs])
        ELSE Ret(state))

\* store, were it to raise underflow on a stack of fewer than 2 elements
store_underflow(state0) ==
  Bind(enter(state0), LAMBDA state:
    IF Len(state.stack) >= 2 THEN store_untaped(state0) ELSE Throw(underflow))

store(state0) ==
  Bind(enter(state0), LAMBDA state:
    LET length == Len(state.stack)
        pivot == length - 2
    IN  IF length >= 2
        THEN LET v == state.stack[pivot + 1]
                 slot == state.stack[pivot + 2]
                 key == PropertyKey(slot)
                 defs == [k \in DOMAIN state.defs \cup {key} |->
                            IF k = key THEN v ELSE state.defs[k]]
             IN  Ret([state EXCEPT !.stack = SubSeq(state.stack, 1, pivot),
                                   !.defs = defs,
                                   !.tape = Append(state.tape, tag("string", Str("=")))])
        ELSE Ret(state))

show(state, showing) == Ret([state EXCEPT !.showing = showing])

\* hoist, were it to build the new state from the initial one
hoist_from_init(state, r) == Bind(r, LAMBDA a: Ret([init EXCEPT !.accum = a]))

\* hoist_methods('accum', accumulator): a token method of the accumulator as a
\* method of the calculator, r being its outcome on state.accum
hoist(state, r) == Bind(r, LAMBDA a: Ret([state EXCEPT !.accum = a]))

(***************************************************************************)
(* The calls of the calculator's method table, as data.                    *)
(***************************************************************************)
Digits == {0, 5}
Letters == {"x"}
Modes == {"basic", "frac"}
OpNames == {"add", "div", "neg", "f4"}
ExchArgs == {<<-1, -2>>, <<1, 0>>}
PushValues ==
  {tag("float", FromInt(5)), tag("rat", [num |-> One, denom |-> FromInt(2)]),
   tag("word", Str("x"))}

Call0(name) == [call |-> name]
DigitCall(d) == [call |-> "digit", d |-> d]
LetterCall(l) == [call |-> "letter", l |-> l]
PushCall(v) == [call |-> "push", value |-> v]
OperatorCall(n) == [call |-> "operator", name |-> n]
ExchCall(a, b) == [call |-> "exch", a |-> a, b |-> b]
ShowCall(m) == [call |-> "show", showing |-> m]

TokenCalls ==
  {DigitCall(d) : d \in Digits} \cup {LetterCall(l) : l \in Letters}
  \cup {Call0("decimal"), Call0("num"), Call0("denom"), Call0("clear")}

AutoEnterCalls ==
  {OperatorCall(n) : n \in OpNames}
  \cup {ExchCall(ab[1], ab[2]) : ab \in ExchArgs}
  \cup {Call0("store")}

\* every method of calculator.methods, with the arguments of the model
Calls ==
  TokenCalls \cup AutoEnterCalls
  \cup {Call0("enter"), Call0("reset")}
  \cup {PushCall(v) : v \in PushValues}
  \cup {ShowCall(m) : m \in Modes}

\* calculator.methods[c.call](state, ...args)
invoke(c, state) ==
  CASE c.call = "reset" -> reset(state)
    [] c.call = "push" -> push(state, c.value)
    [] c.call = "enter" -> enter(state)
    [] c.call = "exch" -> exch(state, c.a, c.b)
    [] c.call = "store" -> store(state)
    [] c.call = "operator" -> operator(state, c.name)
    [] c.call = "show" -> show(state, c.showing)
    [] c.call = "clear" -> hoist(state, clear(state.accum))
    [] c.call = "digit" -> hoist(state, digit(state.accum, c.d))
    [] c.call = "decimal" -> hoist(state, decimal(state.accum))
    [] c.call = "num" -> hoist(state, num(state.accum))
    [] c.call = "denom" -> hoist(state, denom(state.accum))
    [] c.call = "letter" -> hoist(state, letter(state.accum, c.l))

(***************************************************************************)
(* fp.js: undoable, the undo/redo transform over {inner, history, undone}. *)
(***************************************************************************)
undoable_init == [inner |-> init, history |-> << >>, undone |-> << >>]

\* update, were it to record the state the mutation produced
update_push_post(c, state) ==
  Bind(invoke(c, state.inner), LAMBDA inner:
    Ret([inner |-> inner,
         history |-> Append(state.history, inner),
         undone |-> << >>]))

\* update, were it to keep the undone list
update_keep_undone(c, state) ==
  Bind(invoke(c, state.inner), LAMBDA inner:
    Ret([inner |-> inner,
         history |-> Append(state.history, state.inner),
         undone |-> state.undone]))

\* update, were it to record only the calls that change the inner state
update_if_changed(c, state) ==
  Bind(invoke(c, state.inner), LAMBDA inner:
    IF inner = state.inner
    THEN Ret([inner |-> inner, history |-> state.history, undone |-> << >>])
    ELSE Ret([inner |-> inner,
              history |-> Append(state.history, state.inner),
              undone |-> << >>]))

\* the wrapped method: the object literal evaluates method(state.inner)
\* first, so a throwing method builds no state
update(c, state) ==
  Bind(invoke(c, state.inner), LAMBDA inner:
    Ret([inner |-> inner,
         history |-> Append(state.history, state.inner),
         undone |-> << >>]))

\* undo, were it to forget the state it leaves
undo_drop_current(state) ==
  IF Len(state.history) > 0
  THEN LET last == Len(state.history) IN
       Ret([inner |-> state.history[last],
            history |-> SubSeq(state.history, 1, last - 1),
            undone |-> state.undone])
  ELSE Throw("Nothing to undo!")

undo(state) ==
  IF Len(state.history) > 0
  THEN LET last == Len(state.history) IN
       Ret([inner |-> state.history[last],
            history |-> SubSeq(state.history, 1, last - 1),
            undone |-> Append(state.undone, state.inner)])
  ELSE Throw("Nothing to undo!")

\* redo, were it to return the state as it is when there is nothing to redo
redo_lenient(state) ==
  IF Len(state.undone) > 0
  THEN LET last == Len(state.undone) IN
       Ret([inner |-> state.undone[last],
            history |-> Append(state.history, state.inner),
            undone |-> SubSeq(state.undone, 1, last - 1)])
  ELSE Ret(state)

redo(state) ==
  IF Len(state.undone) > 0
  THEN LET last == Len(state.undone) IN
       Ret([inner |-> state.undone[last],
            history |-> Append(state.history, state.inner),
            undone |-> SubSeq(state.undone, 1, last - 1)])
  ELSE Throw("Nothing to redo!")

\* undoable(calculator).methods[c.call](state, ...args)
wrapped(c, state) ==
  CASE c.call = "undo" -> undo(state)
    [] c.call = "redo" -> redo(state)
    [] OTHER -> update(c, state)

(***************************************************************************)
(* fp.js: reactor, the stateful store the application builds as            *)
(* reactor(undoable(calculator), render).                                  *)
(***************************************************************************)
VARIABLES
  state,     \* the reactor's state: {inner, history, undone}
  storage,   \* localStorage item "default": << >> or <<the saved state>>
  rendered,  \* whether the last call ended with refresh()
  last,      \* the last call, what its method raised, what escaped from it
  script,    \* the documented key sequence being typed (SpecKeys)
  pc         \* number of keys of the script typed so far

vars == <<state, storage, rendered, last, script, pc>>

\* an error handler that starts the calculator over
on_error_reset(st, err) == Ret(undoable_init)

\* the application passes no third argument, so on_error is undefined and
\* calling it is a TypeError
on_error(st, err) == Throw("TypeError: on_error is not a function")

\* method(m)(...args): the outcome of one call on reactor state st, writable
\* telling whether localStorage.setItem returns or raises.  The variable
\* state is assigned before the write, so a write that raises leaves the
\* mutated state for the catch clause.
method_io(c, st, stored, writable) ==
  Let(wrapped(c, st), LAMBDA r:
    IF r.ok /\ writable
    THEN [state |-> r.val, storage |-> <<r.val>>, rendered |-> TRUE,
          raised |-> "none", thrown |-> "none"]
    ELSE Let(IF r.ok THEN r.val ELSE st, LAMBDA cur:
         Let(IF r.ok THEN "QuotaExceededError" ELSE r.err, LAMBDA err:
         Let(on_error(cur, err), LAMBDA h:
           IF h.ok
           THEN [state |-> h.val, storage |-> stored, rendered |-> TRUE,
                 raised |-> err, thrown |-> "none"]
           ELSE [state |-> cur, storage |-> stored, rendered |-> FALSE,
                 raised |-> err, thrown |-> h.err]))))

\* a call whose write to localStorage returns
method(c, st, stored) == method_io(c, st, stored, TRUE)

(***************************************************************************)
(* The part of the state space the model explores.                         *)
(***************************************************************************)
NumOK(x) ==
  IF IsNumber(x) THEN IsModelled(x) /\ Abs(x.m) <= MaxMant ELSE FALSE

RatOK(r) ==
  IF IsRat(r)
  THEN IF IsNumber(r.num) /\ IsNumber(r.denom)
       THEN NumOK(r.num) /\ NumOK(r.denom)
       ELSE FALSE
  ELSE FALSE

ValueOK(v) ==
  IF IsUndefined(v) THEN TRUE
  ELSE IF v.tag \in {"word", "string"} THEN TRUE
  ELSE IF v.tag \notin NumTags THEN FALSE
  ELSE IF IsNumber(v.value) THEN NumOK(v.value)
  ELSE RatOK(v.value)

AccumOK(a) ==
  LET lim == Pow(10, MaxDigits) IN
  CASE a.type = "empty" -> TRUE
    [] a.type = "dec" -> a.val.value < lim
    [] a.type = "float" -> a.val.integer < lim /\ a.val.frac < lim
    [] a.type = "var" -> Len(a.val.id) <= MaxDigits
    [] a.type = "num" -> a.val.integer < lim /\ a.val.num < lim
    [] a.type = "denom" ->
         a.val.integer < lim /\ a.val.num < lim /\ a.val.denom < lim

CalcOK(c) ==
  /\ AccumOK(c.accum)
  /\ \A i \in 1..Len(c.stack) : ValueOK(c.stack[i])
  /\ \A i \in 1..Len(c.tape) : ValueOK(c.tape[i])

\* an outcome the model represents: a state within the bounds, or an error
\* the code raises
Modelled(r) == IF r.ok THEN CalcOK(r.val) ELSE r.err # "unmodelled"

Init ==
  /\ state = undoable_init
  /\ storage = << >>
  /\ rendered = FALSE
  /\ last = [call |-> Call0("init"), raised |-> "none", thrown |-> "none"]
  /\ script = [id |-> 0, mode |-> "basic"]
  /\ pc = 0

\* the reactor after a call whose outcome is o
Outcome(c, o) ==
  /\ state' = o.state
  /\ storage' = o.storage
  /\ rendered' = o.rendered
  /\ last' = [call |-> c, raised |-> o.raised, thrown |-> o.thrown]

\* one call of a reactor action
Method(c) == Outcome(c, method(c, state, storage))

\* a call explored under Spec: one whose outcome the model computes, within
\* the bounds
Bounded(c) ==
  \E o \in {method(c, state, storage)} :
  /\ o.raised # "unmodelled"
  /\ CalcOK(o.state.inner)
  /\ Len(o.state.history) + Len(o.state.undone) <= MaxHistory
  /\ Outcome(c, o)
  /\ UNCHANGED <<script, pc>>

Digit == \E d \in Digits : Bounded(DigitCall(d))
Letter == \E l \in Letters : Bounded(LetterCall(l))
Decimal == Bounded(Call0("decimal"))
NumKey == Bounded(Call0("num"))
DenomKey == Bounded(Call0("denom"))
Clear == Bounded(Call0("clear"))
Enter == Bounded(Call0("enter"))
Push == \E v \in PushValues : Bounded(PushCall(v))
Operator == \E n \in OpNames : Bounded(OperatorCall(n))
Exch == \E ab \in ExchArgs : Bounded(ExchCall(ab[1], ab[2]))
Store == Bounded(Call0("store"))
Show == \E m \in Modes : Bounded(ShowCall(m))
Reset == Bounded(Call0("reset"))
Undo == Bounded(Call0("undo"))
Redo == Bounded(Call0("redo"))

Next ==
  \/ Digit \/ Letter \/ Decimal \/ NumKey \/ DenomKey \/ Clear \/ Enter
  \/ Push \/ Operator \/ Exch \/ Store \/ Show \/ Reset \/ Undo \/ Redo

Spec == Init /\ [][Next]_vars

(***************************************************************************)
(* SpecCalc: the bare calculator, its methods chained on a state as the    *)
(* unit tests chain them; a method that throws produces no state.          *)
(***************************************************************************)
CalcStep(c) ==
  \E r \in {invoke(c, state.inner)} :
  /\ pc < MaxCalls
  /\ Modelled(r)
  /\ state' = IF r.ok THEN [state EXCEPT !.inner = r.val] ELSE state
  /\ pc' = IF r.ok THEN pc + 1 ELSE pc
  /\ last' = [call |-> c,
              raised |-> IF r.ok THEN "none" ELSE r.err,
              thrown |-> IF r.ok THEN "none" ELSE r.err]
  /\ UNCHANGED <<storage, rendered, script>>

CalcNext == \E c \in Calls : CalcStep(c)

SpecCalc == Init /\ [][CalcNext]_vars

(***************************************************************************)
(* SpecKeys: the key sequences the README documents, typed into the        *)
(* application one key at a time after choosing a display mode.            *)
(***************************************************************************)
\* README "Fractional Quantities" (1-5) and "Auto Enter" (6-9)
KeySequence(id) ==
  CASE id = 1 -> <<DigitCall(3), Call0("num"), DigitCall(3), Call0("denom"),
                   DigitCall(4), Call0("enter")>>
    [] id = 2 -> <<DigitCall(3), Call0("enter"), DigitCall(3), Call0("denom"),
                   DigitCall(4), OperatorCall("add")>>
    [] id = 3 -> <<DigitCall(3), Call0("enter"), DigitCall(3),
                   OperatorCall("f4"), OperatorCall("add")>>
    [] id = 4 -> <<DigitCall(1), DigitCall(5), Call0("denom"), DigitCall(4),
                   Call0("enter")>>
    [] id = 5 -> <<DigitCall(1), DigitCall(5), Call0("enter"), DigitCall(4),
                   OperatorCall("div")>>
    [] id = 6 -> <<DigitCall(4), Call0("enter"), DigitCall(5), Call0("enter"),
                   OperatorCall("add")>>
    [] id = 7 -> <<DigitCall(4), Call0("enter"), DigitCall(5),
                   OperatorCall("add")>>
    [] id = 8 -> <<DigitCall(3), Call0("enter"), DigitCall(4), Call0("enter"),
                   OperatorCall("add"), DigitCall(5), Call0("enter"),
                   OperatorCall("mul")>>
    [] id = 9 -> <<DigitCall(3), Call0("enter"), DigitCall(4),
                   OperatorCall("add"), DigitCall(5), OperatorCall("mul")>>

\* the keys of a script: the mode key, then the documented sequence
Keys(sc) == <<ShowCall(sc.mode)>> \o KeySequence(sc.id)

KeysInit ==
  /\ state = undoable_init
  /\ storage = << >>
  /\ rendered = FALSE
  /\ last = [call |-> Call0("init"), raised |-> "none", thrown |-> "none"]
  /\ script \in [id : 1..9, mode : Modes]
  /\ pc = 0

TypeKey ==
  /\ pc < Len(Keys(script))
  /\ Method(Keys(script)[pc + 1])
  /\ pc' = pc + 1
  /\ UNCHANGED script

SpecKeys == KeysInit /\ [][TypeKey]_vars

(***************************************************************************)
(* Properties of the undo/redo transform, checked under Spec.              *)
(***************************************************************************)
\* whether the last call was the method `name` and returned
Returned(name) == last.call.call = name /\ last.raised = "none"

\* C1: for every wrapped mutating method m (any method other than undo and
\* redo) that returns on the current state s, undo(m(s)) is defined and has
\* inner equal to s.inner and history equal to s.history.
C1_UndoRestoresPrior ==
  \A c \in Calls : \A r \in {wrapped(c, state)} :
    r.ok => \A u \in {undo(r.val)} :
              /\ u.ok
              /\ u.val.inner = state.inner
              /\ u.val.history = state.history

\* C1 happens: an undo has just taken back a mutation that changed the
\* calculator.
C1_Witness ==
  /\ Returned("undo")
  /\ Len(state.undone) = 1
  /\ state.undone[1] # state.inner
  /\ state.inner = init

\* C2: undo and redo are mutual inverses on the whole state {inner, history,
\* undone}: redo(undo(s)) = s whenever undo is defined on s, undo(redo(s)) = s
\* whenever redo is defined on s, and two undos followed by two redos (or two
\* redos followed by two undos) return to s.
C2_UndoRedoInverse ==
  /\ undo(state).ok => Bind(undo(state), redo) = Ret(state)
  /\ redo(state).ok => Bind(redo(state), undo) = Ret(state)
  /\ Bind(undo(state), undo).ok =>
       Bind(Bind(Bind(undo(state), undo), redo), redo) = Ret(state)
  /\ Bind(redo(state), redo).ok =>
       Bind(Bind(Bind(redo(state), redo), undo), undo) = Ret(state)

\* C2 happens: a redo has just restored what an undo took back, with more to
\* undo below it.
C2_Witness ==
  /\ Returned("redo")
  /\ Len(state.history) = 2
  /\ state.undone = << >>
  /\ state.inner # state.history[2]

\* C3: every wrapped method other than undo and redo, when it returns, yields
\* history = old history with the pre-mutation inner appended and undone = << >>,
\* so redo raises right after it; redo removes exactly the last entry of undone
\* and leaves the others in place.
C3_UpdateRecordsHistory ==
  /\ \A c \in Calls : \A r \in {wrapped(c, state)} :
       r.ok => /\ r.val.history = Append(state.history, state.inner)
               /\ r.val.undone = << >>
               /\ ~redo(r.val).ok
  /\ \A r \in {redo(state)} :
       r.ok => /\ Len(r.val.undone) = Len(state.undone) - 1
               /\ r.val.undone = SubSeq(state.undone, 1, Len(state.undone) - 1)

\* C3 happens: a mutation has just returned on a state that already had a
\* history: the state it found is the newest history entry, nothing is left to
\* redo and redo raises.
C3_Witness ==
  /\ last.call.call \in {"digit", "enter", "push", "show"}
  /\ last.raised = "none"
  /\ Len(state.history) = 2
  /\ state.history[2] # state.inner
  /\ state.undone = << >>
  /\ redo(state) = Throw("Nothing to redo!")

\* C4: undo on a state whose history is empty raises, redo on a state whose
\* undone is empty raises, and in both cases the reactor keeps the state it had.
C4_NothingToUndoRedo ==
  /\ Len(state.history) = 0 =>
       /\ undo(state) = Throw("Nothing to undo!")
       /\ method(Call0("undo"), state, storage).state = state
  /\ Len(state.undone) = 0 =>
       /\ redo(state) = Throw("Nothing to redo!")
       /\ method(Call0("redo"), state, storage).state = state

\* C4 happens: undo was called on the initial state and raised.
C4_Witness ==
  /\ last.call = Call0("undo")
  /\ last.raised = "Nothing to undo!"
  /\ state = undoable_init

\* C5: a method that raises a UserError leaves inner, history and undone as
\* they were before the call; no history entry is pushed.
C5_UserErrorKeepsState ==
  \A c \in Calls \cup {Call0("undo"), Call0("redo")} :
    \A o \in {method(c, state, storage)} :
    o.raised \in UserErrors =>
      /\ o.state.inner = state.inner
      /\ o.state.history = state.history
      /\ o.state.undone = state.undone

\* C5 happens: a call has just raised a UserError on a state with history.
C5_Witness ==
  /\ last.raised \in UserErrors
  /\ Len(state.history) > 0
  /\ state.inner # init

(***************************************************************************)
(* Properties of the calculator, checked under SpecCalc.                   *)
(***************************************************************************)
calc == state.inner

\* the indexes an "exch(A, B)" tape entry can name
ExchIndexes == 0..(MaxCalls + 1)

IsExchText(text) ==
  \E a \in ExchIndexes : \E b \in ExchIndexes : ExchEntry(a, b) = text

ExchArgsOf(text) ==
  CHOOSE ab \in ExchIndexes \X ExchIndexes : ExchEntry(ab[1], ab[2]) = text

\* one tape entry, played on calculator state st
ReplayEntry(entry, st) ==
  IF entry.tag # "string" THEN push(st, entry)
  ELSE IF entry.value.str = "=" THEN store(st)
  ELSE IF IsExchText(entry.value.str)
       THEN exch(st, ExchArgsOf(entry.value.str)[1], ExchArgsOf(entry.value.str)[2])
  ELSE operator(st, entry.value.str)

RECURSIVE ReplayFrom(_, _, _)
ReplayFrom(tape, i, r) ==
  IF i > Len(tape) THEN r
  ELSE ReplayFrom(tape, i + 1, Bind(r, LAMBDA st: ReplayEntry(tape[i], st)))

Replay(tape) == ReplayFrom(tape, 1, Ret(init))

\* C6: replaying the tape of a reachable calculator state entry by entry from
\* the initial state (values via push, operator names via operator, "=" via
\* store, "exch(A, B)" via exch) yields the same stack and the same defs.
C6_TapeReplay ==
  \A r \in {Replay(calc.tape)} :
  /\ r.ok
  /\ r.val.stack = calc.stack
  /\ r.val.defs = calc.defs

\* C6 happens: the tape holds a value the accumulator entered, a pushed value
\* and a "=", and the store has bound a definition.
C6_Witness ==
  /\ Len(calc.tape) = 3
  /\ calc.tape[3] = tag("string", Str("="))
  /\ calc.tape[2].tag = "word"
  /\ calc.defs # constants
  /\ calc.stack = << >>

\* whether the accumulator holds a complete value: Dec, Float, Var or Denom
Complete(a) == a.type \in {"dec", "float", "var", "denom"}

\* an outcome the code produces, as opposed to one the model does not compute
Computed(r) == r.ok \/ r.err # "unmodelled"

\* C7: auto-enter equivalence: with a complete value in the accumulator, in
\* every display mode, operator(name), exch(a, b) and store() applied directly
\* give the same state or the same error as enter() followed by the action.
C7_AutoEnterEquivalence ==
  Complete(calc.accum) =>
    \A f \in AutoEnterCalls :
      \A direct \in {invoke(f, calc)} :
        \A entered \in {Bind(enter(calc), LAMBDA s: invoke(f, s))} :
          (Computed(direct) /\ Computed(entered)) => direct = entered

\* C8: enter() on an empty accumulator returns the state unchanged; on a
\* complete accumulator, in every display mode, it pushes exactly one value,
\* appends exactly one tape entry and leaves the accumulator empty.
C8_EnterPushesOne ==
  \A r \in {enter(calc)} :
  /\ isEmpty(calc.accum) => r = Ret(calc)
  /\ (Complete(calc.accum) /\ Computed(r)) =>
       /\ r.ok
       /\ Len(r.val.stack) = Len(calc.stack) + 1
       /\ SubSeq(r.val.stack, 1, Len(calc.stack)) = calc.stack
       /\ Len(r.val.tape) = Len(calc.tape) + 1
       /\ SubSeq(r.val.tape, 1, Len(calc.tape)) = calc.tape
       /\ isEmpty(r.val.accum)

\* the number x equals the rational r exactly: x * denom = num
EqualsRat(x, r) == NMul(x, r.denom) = r.num

\* C9: in frac mode enter() on a Dec or Float accumulator of value x pushes the
\* rat-tagged rational exactly equal to x, and appends that same rational to
\* the tape.
C9_FracEnterExact ==
  (calc.showing = "frac" /\ calc.accum.type \in {"dec", "float"}) =>
    \A x \in {value(calc.accum).val.value} : \A r \in {enter(calc)} :
      (IsModelled(x) /\ Computed(r)) =>
        /\ r.ok
        /\ \A pushed \in {r.val.stack[Len(r.val.stack)]} :
             /\ pushed.tag = "rat"
             /\ IsRat(pushed.value)
             /\ EqualsRat(x, pushed.value)
             /\ r.val.tape[Len(r.val.tape)] = pushed

(***************************************************************************)
(* Properties of the documented key sequences, checked under SpecKeys.     *)
(***************************************************************************)
\* whether a stack element denotes the rational n/d
Denotes(v, n, d) ==
  IF IsUndefined(v) THEN FALSE
  ELSE IF v.tag \notin NumTags THEN FALSE
  ELSE IF IsRat(v.value)
       THEN NMul(v.value.num, FromInt(d)) = NMul(v.value.denom, FromInt(n))
  ELSE NMul(v.value, FromInt(d)) = FromInt(n)

\* C10: in fraction mode, from the initial state, each of the sequences
\* `3 num 3 denom 4 enter`, `3 enter 3 denom 4 add`, `3 enter 3 f4 add`,
\* `15 denom 4 enter` and `15 enter 4 div` ends with a stack of exactly one
\* element denoting 15/4 and with an empty accumulator.
C10_FracSequencesAgree ==
  (pc = Len(Keys(script)) /\ script.mode = "frac" /\ script.id \in 1..5) =>
    /\ Len(calc.stack) = 1
    /\ Denotes(calc.stack[1], 15, 4)
    /\ isEmpty(calc.accum)

\* the index arguments exch is examined with at every reachable state
ExchRange == -2..2

\* an index argument of exch, resolved against a stack
Resolved(i, stack) == IF i < 0 THEN Len(stack) + i ELSE i

\* C11: every exch(a, b) that returns yields a stack as long as the
\* auto-entered input stack, with the values at the resolved positions A and B
\* exchanged and every other position unchanged, and appends exactly one tape
\* entry naming A and B.
C11_ExchPermutes ==
  \A e \in {enter(calc)} :
    e.ok =>
      \A a \in ExchRange : \A b \in ExchRange :
        \A r \in {exch(calc, a, b)} :
          r.ok =>
            \E A \in {Resolved(a, e.val.stack)} :
            \E B \in {Resolved(b, e.val.stack)} :
              /\ Len(r.val.stack) = Len(e.val.stack)
              /\ r.val.stack[A + 1] = e.val.stack[B + 1]
              /\ r.val.stack[B + 1] = e.val.stack[A + 1]
              /\ \A i \in 1..Len(e.val.stack) :
                   i \notin {A + 1, B + 1} => r.val.stack[i] = e.val.stack[i]
              /\ r.val.tape =
                   Append(e.val.tape, tag("string", Str(ExchEntry(A, B))))

\* C12 as stated: with the accumulator entered, exch(a, b) raises overflow
\* whenever a resolved index is greater than the stack length, and raises
\* underflow whenever a resolved index is negative.
C12_ExchRaises ==
  \A e \in {enter(calc)} :
    e.ok =>
      \A a \in ExchRange : \A b \in ExchRange :
        \A r \in {exch(calc, a, b)} :
          \E A \in {Resolved(a, e.val.stack)} :
          \E B \in {Resolved(b, e.val.stack)} :
            /\ Max(A, B) > Len(e.val.stack) => r = Throw(overflow)
            /\ Min(A, B) < 0 => r = Throw(underflow)

\* C12, amended: exch(a, b) raises overflow whenever a resolved index is
\* greater than the stack length; it raises underflow whenever a resolved
\* index is negative and neither is greater than the stack length.  A raising
\* exch produces no state, and exch(1, 0) on an empty stack raises overflow.
C12_ExchRaisesOverflowFirst ==
  \A e \in {enter(calc)} :
    e.ok =>
      /\ \A a \in ExchRange : \A b \in ExchRange :
           \A r \in {exch(calc, a, b)} :
             \E A \in {Resolved(a, e.val.stack)} :
             \E B \in {Resolved(b, e.val.stack)} :
               /\ Max(A, B) > Len(e.val.stack) => r = Throw(overflow)
               /\ (Max(A, B) <= Len(e.val.stack) /\ Min(A, B) < 0) =>
                    r = Throw(underflow)
      /\ e.val.stack = << >> => exch(calc, 1, 0) = Throw(overflow)

\* C12 happens: exch(1, 0) has just raised overflow on an empty stack, where
\* exch(-1, -2) raises underflow and exch(1, -1), with one index too large and
\* one negative, raises overflow.
C12_Witness ==
  /\ last.call = ExchCall(1, 0)
  /\ last.raised = overflow
  /\ calc.stack = << >>
  /\ isEmpty(calc.accum)
  /\ exch(calc, -1, -2) = Throw(underflow)
  /\ exch(calc, 1, -1) = Throw(overflow)

\* the word value spelling name n
Word(n) == tag("word", Str(n))

\* C13: store() on an auto-entered stack [..., v, w] of length at least 2,
\* w being a word naming slot n, removes exactly v and w, leaves the elements
\* below unchanged, binds defs[n] = v and leaves every other binding as it
\* was, and appends "=" to the tape.
C13_StoreBindsName ==
  \A e \in {enter(calc)} :
    (/\ e.ok
     /\ Len(e.val.stack) >= 2
     /\ ~IsUndefined(e.val.stack[Len(e.val.stack)])
     /\ e.val.stack[Len(e.val.stack)].tag = "word") =>
      \A r \in {store(calc)} :
      \A n \in {e.val.stack[Len(e.val.stack)].value.str} :
        /\ r.ok
        /\ r.val.stack = SubSeq(e.val.stack, 1, Len(e.val.stack) - 2)
        /\ DOMAIN r.val.defs = DOMAIN e.val.defs \cup {n}
        /\ r.val.defs[n] = e.val.stack[Len(e.val.stack) - 1]
        /\ \A k \in DOMAIN e.val.defs \ {n} : r.val.defs[k] = e.val.defs[k]
        /\ r.val.tape = Append(e.val.tape, tag("string", Str("=")))

\* the names push is examined with: a typed name, another name, a constant
PushNames == {"x", "y", "LN2"}

\* C14: pushing a word whose name is bound in defs puts the bound value on
\* the stack and the literal word on the tape; pushing a word whose name is
\* not bound puts the word itself on the stack.
C14_PushResolvesName ==
  \A n \in PushNames :
    \A r \in {push(calc, Word(n))} :
      /\ r.ok
      /\ r.val.tape = Append(calc.tape, Word(n))
      /\ r.val.stack =
           Append(calc.stack,
                  IF n \in DOMAIN calc.defs THEN calc.defs[n] ELSE Word(n))

\* C15 as stated: store() with fewer than 2 elements on the auto-entered stack
\* returns the input state itself.
C15_StoreNoOp ==
  \A e \in {enter(calc)} :
    (e.ok /\ Len(e.val.stack) < 2) => store(calc) = Ret(calc)

\* C15, amended: store() with fewer than 2 elements on the auto-entered stack
\* raises no error and returns the auto-entered state, defs and showing those
\* of the input state; with an empty accumulator that is the input state.
C15_StoreNoOpAfterEnter ==
  \A e \in {enter(calc)} :
    (e.ok /\ Len(e.val.stack) < 2) =>
      /\ store(calc) = e
      /\ e.val.defs = calc.defs
      /\ e.val.showing = calc.showing
      /\ isEmpty(calc.accum) => store(calc) = Ret(calc)

\* C15 happens: store() has returned after digit(0), with the entered 0 alone
\* on the stack and on the tape, and no binding made.
C15_Witness ==
  /\ last.call = Call0("store")
  /\ last.raised = "none"
  /\ pc = 2
  /\ Len(calc.stack) = 1
  /\ calc.tape = <<tag("float", Zero)>>
  /\ calc.defs = constants
  /\ calc.showing = "basic"
  /\ isEmpty(calc.accum)

\* the operator names operator is examined with at every reachable state
AppliedNames == {"neg", "square", "add", "div", "f2", "float", "frac"}

\* C16: a successful operator(name) of arity k on an auto-entered stack of
\* length n >= k leaves the lowest n - k elements unchanged, replaces the top
\* k elements by exactly one result (new length n - k + 1), appends exactly
\* name to the tape after any auto-entered value, leaves defs and showing
\* unchanged, and leaves the accumulator empty.
C16_OperatorReplacesTop ==
  \A e \in {enter(calc)} :
    \A name \in AppliedNames :
      \A r \in {operator(calc, name)} :
      \A k \in {arities(name)} :
        r.ok =>
          /\ e.ok
          /\ Len(e.val.stack) >= k
          /\ Len(r.val.stack) = Len(e.val.stack) - k + 1
          /\ SubSeq(r.val.stack, 1, Len(e.val.stack) - k) =
               SubSeq(e.val.stack, 1, Len(e.val.stack) - k)
          /\ ~IsUndefined(r.val.stack[Len(r.val.stack)])
          /\ r.val.tape = Append(e.val.tape, tag("string", Str(name)))
          /\ r.val.defs = calc.defs
          /\ r.val.showing = calc.showing
          /\ isEmpty(r.val.accum)

\* C16 happens: add has just succeeded on three elements, the lowest of which
\* is still in place under the one result, with "add" as the fourth tape
\* entry; applied again with a value in the accumulator it would succeed too.
C16_Witness ==
  /\ last.call = OperatorCall("add")
  /\ last.raised = "none"
  /\ Len(calc.stack) = 2
  /\ calc.stack[1] = tag("float", FromInt(5))
  /\ Len(calc.tape) = 4
  /\ calc.tape[4] = tag("string", Str("add"))
  /\ isEmpty(calc.accum)
  /\ operator(calc, "add").ok

\* C17: operator(name) on an auto-entered stack holding fewer elements than
\* the arity of name raises the stack-underflow error.
C17_OperatorUnderflows ==
  \A e \in {enter(calc)} :
    (e.ok /\ isEmpty(e.val.accum)) =>
      \A name \in AppliedNames :
        Len(e.val.stack) < arities(name) =>
          operator(calc, name) = Throw(underflow)

(***************************************************************************)
(* Properties of the accumulator, checked under SpecCalc at the            *)
(* accumulator of every reachable calculator state.                        *)
(***************************************************************************)
AllDigits == 0..9
SomeLetters == {"x", "y"}

\* the type graph as stated
StatedEdges ==
  {<<"empty", "dec">>, <<"empty", "float">>, <<"empty", "var">>,
   <<"dec", "dec">>, <<"dec", "float">>, <<"dec", "num">>,
   <<"float", "float">>, <<"var", "var">>,
   <<"num", "num">>, <<"num", "denom">>, <<"denom", "denom">>}

\* the stated graph with the edges of num() from Empty and denom() from Dec
TokenEdges == StatedEdges \cup {<<"empty", "num">>, <<"dec", "denom">>}

\* outcome r of a token on accumulator a stays on the edges of G
Follows(a, r, G) == r.ok => <<a.type, r.val.type>> \in G

\* every token on accumulator a stays on the edges of G
TokensFollow(a, G) ==
  /\ \A d \in AllDigits : Follows(a, digit(a, d), G)
  /\ \A l \in SomeLetters : Follows(a, letter(a, l), G)
  /\ Follows(a, decimal(a), G)
  /\ Follows(a, num(a), G)
  /\ Follows(a, denom(a), G)

\* outcome r is an accumulator of type t
Gives(r, t) == IF r.ok THEN r.val.type = t ELSE FALSE

\* some token takes accumulator a to type t
SomeTokenGives(a, t) ==
  \/ \E d \in AllDigits : Gives(digit(a, d), t)
  \/ \E l \in SomeLetters : Gives(letter(a, l), t)
  \/ Gives(decimal(a), t)
  \/ Gives(num(a), t)
  \/ Gives(denom(a), t)

\* C18 as stated: no token moves the accumulator off the graph
\* Empty -> {Dec, Float, Var}; Dec -> {Dec, Float, Num}; Float -> {Float};
\* Var -> {Var}; Num -> {Num, Denom}; Denom -> {Denom}.
C18_StatedGraph == TokensFollow(calc.accum, StatedEdges)

\* C18, amended: the type transitions of the tokens are exactly the graph
\* Empty -> {Dec, Float, Var, Num}; Dec -> {Dec, Float, Num, Denom};
\* Float -> {Float}; Var -> {Var}; Num -> {Num, Denom}; Denom -> {Denom}:
\* no token leaves it, some token takes each of its edges, and clear gives
\* Empty from every state.
C18_TokenGraph ==
  /\ TokensFollow(calc.accum, TokenEdges)
  /\ \A edge \in TokenEdges :
       edge[1] = calc.accum.type => SomeTokenGives(calc.accum, edge[2])
  /\ clear(calc.accum) = Ret(empty)

\* C18 happens: denom() has just taken the Dec 5 typed before it to a Denom,
\* from which digits keep the type and every other token raises.
C18_Witness ==
  /\ last.call = Call0("denom")
  /\ last.raised = "none"
  /\ pc = 2
  /\ calc.accum = [type |-> "denom", val |-> [integer |-> 0, num |-> 5, denom |-> 0]]
  /\ Gives(digit(calc.accum, 5), "denom")
  /\ ~num(calc.accum).ok

\* the digit sequences typed after the decimal point
FracSeqs == UNION {[1..n -> AllDigits] : n \in 0..2}

\* the accumulator after the digits ds[i..] typed on outcome r
RECURSIVE TypeDigits(_, _, _)
TypeDigits(r, ds, i) ==
  IF i > Len(ds) THEN r
  ELSE TypeDigits(Bind(r, LAMBDA a: digit(a, ds[i])), ds, i + 1)

\* the integer a digit sequence spells
RECURSIVE Spelled(_, _)
Spelled(ds, n) == IF n = 0 THEN 0 ELSE Spelled(ds, n - 1) * 10 + ds[n]

\* double x is the number N / 10^n.  Within the digits examined a double that
\* is a different number from N / 10^n is not the double nearest to it; a
\* value the model does not compute decides nothing.
IsDecimal(x, N, n) ==
  IF ~(IsNumber(x) /\ IsModelled(x)) THEN TRUE
  ELSE IF ~IsFinite(x) THEN FALSE
  ELSE IF x.e >= 0 THEN x.m * Pow(2, x.e) * Pow(10, n) = N
  ELSE x.m * Pow(10, n) = N * Pow(2, -x.e)

\* C19: digits i1..im typed from Empty spell a Dec whose value() is the
\* float-tagged integer they spell; followed by decimal() and digits f1..fn,
\* value() is the float-tagged number with the decimal numeral i1..im.f1..fn,
\* zeros directly after the decimal point included.
C19_FloatNumeral ==
  calc.accum.type = "dec" =>
    /\ value(calc.accum) = Ret(tag("float", FromInt(calc.accum.val.value)))
    /\ \A fs \in FracSeqs :
         \A r \in {Bind(TypeDigits(decimal(calc.accum), fs, 1), LAMBDA a: value(a))} :
           /\ r.ok
           /\ r.val.tag = "float"
           /\ IsDecimal(r.val.value,
                        calc.accum.val.value * Pow(10, Len(fs)) + Spelled(fs, Len(fs)),
                        Len(fs))

\* C20: denom() is legal only from Dec (giving Denom with integer 0, num the
\* decimal value, denom 0) and from Num (keeping integer and num, denom 0);
\* from Empty it raises incomplete_frac, from Float frac_in_float, from Var
\* not_a_letter and from Denom extra_denom.
C20_DenomLegality ==
  \A a \in {calc.accum} :
  \A r \in {denom(a)} :
    CASE a.type = "empty" -> r = Throw(incomplete_frac)
      [] a.type = "dec" ->
           r = Ret([type |-> "denom",
                    val |-> [integer |-> 0, num |-> a.val.value, denom |-> 0]])
      [] a.type = "float" -> r = Throw(frac_in_float)
      [] a.type = "var" -> r = Throw(not_a_letter)
      [] a.type = "num" ->
           r = Ret([type |-> "denom",
                    val |-> [integer |-> a.val.integer, num |-> a.val.num,
                             denom |-> 0]])
      [] a.type = "denom" -> r = Throw(extra_denom)

\* C21: num() is legal only from Empty (giving Num with integer 0, num 0) and
\* from Dec (giving Num with integer the decimal value, num 0); from Float it
\* raises frac_in_float, from Var not_a_letter, from Num and Denom extra_num;
\* the calculator's forwarded num raises the same error and gives no state.
C21_NumLegality ==
  \A a \in {calc.accum} :
  \A r \in {num(a)} :
    /\ CASE a.type = "empty" ->
              r = Ret([type |-> "num", val |-> [integer |-> 0, num |-> 0]])
         [] a.type = "dec" ->
              r = Ret([type |-> "num",
                       val |-> [integer |-> a.val.value, num |-> 0]])
         [] a.type = "float" -> r = Throw(frac_in_float)
         [] a.type = "var" -> r = Throw(not_a_letter)
         [] a.type = "num" -> r = Throw(extra_num)
         [] a.type = "denom" -> r = Throw(extra_num)
    /\ ~r.ok => invoke(Call0("num"), calc) = r

\* C21 happens: num() has just taken the Dec 5 typed before it to a Num with
\* integer 5, from which a second num() raises extra_num.
C21_Witness ==
  /\ last.call = Call0("num")
  /\ last.raised = "none"
  /\ pc = 2
  /\ calc.accum = [type |-> "num", val |-> [integer |-> 5, num |-> 0]]
  /\ num(calc.accum) = Throw(extra_num)

\* the exported IllegalToken sentinels
IllegalTokens ==
  {extra_decimal, not_a_letter, decimal_in_frac, frac_in_float, extra_num,
   extra_denom, not_a_digit}

\* C22: decimal() maps Empty to Float(integer 0, frac 0) and Dec(v) to
\* Float(integer v, frac 0); from Float it raises the IllegalToken
\* extra_decimal ("Already have decimal."), from Var an IllegalToken, and
\* from Num and Denom decimal_in_frac.
C22_DecimalLegality ==
  \A a \in {calc.accum} :
  \A r \in {decimal(a)} :
    CASE a.type = "empty" ->
           r = Ret([type |-> "float", val |-> [integer |-> 0, frac |-> 0]])
      [] a.type = "dec" ->
           r = Ret([type |-> "float",
                    val |-> [integer |-> a.val.value, frac |-> 0]])
      [] a.type = "float" -> r = Throw(extra_decimal)
      [] a.type = "var" -> IF r.ok THEN FALSE ELSE r.err \in IllegalTokens
      [] a.type = "num" -> r = Throw(decimal_in_frac)
      [] a.type = "denom" -> r = Throw(decimal_in_frac)

\* C23: value() raises empty_accum on Empty and incomplete_frac on Num; on
\* Dec and Float it returns a float-tagged number, on Var a word-tagged
\* string, and on Denom(integer, num, denom) the rat-tagged rational
\* (integer * denom + num) / denom.
C23_ValueOfAccumulator ==
  \A a \in {calc.accum} :
  \A r \in {value(a)} :
    CASE a.type = "empty" -> r = Throw(empty_accum)
      [] a.type = "num" -> r = Throw(incomplete_frac)
      [] a.type = "dec" -> r = Ret(tag("float", FromInt(a.val.value)))
      [] a.type = "float" ->
           IF r.ok THEN r.val.tag = "float" /\ IsNumber(r.val.value) ELSE FALSE
      [] a.type = "var" -> r = Ret(tag("word", Str(a.val.id)))
      [] a.type = "denom" ->
           r = Ret(tag("rat",
                       [num |-> FromInt(a.val.integer * a.val.denom + a.val.num),
                        denom |-> FromInt(a.val.denom)]))

\* C23 happens: the accumulator holds the Denom 5 0/5 typed as 5 num denom 5,
\* whose value is the rational 25/5.
C23_Witness ==
  /\ calc.accum = [type |-> "denom", val |-> [integer |-> 5, num |-> 0, denom |-> 5]]
  /\ last.call = DigitCall(5)
  /\ value(calc.accum) =
       Ret(tag("rat", [num |-> FromInt(25), denom |-> FromInt(5)]))

(***************************************************************************)
(* Properties of the errors the actions raise, checked under Spec.         *)
(***************************************************************************)
\* C24: every error raised by an action of the application is one of the
\* exported sentinels (UserError, IllegalToken, ValueError objects), never a
\* raw string or an untyped runtime error; so are the errors of undo and redo.
C24_ErrorsAreSentinels == last.raised \in UserErrors \cup {"none"}

(***************************************************************************)
(* Properties of the dispatch table, checked under SpecCalc on the stack   *)
(* of every reachable calculator state.                                    *)
(***************************************************************************)
\* the finite double x as the rational of the same value, in lowest terms
ExactRat(x) ==
  IF x.e >= 0 THEN [num |-> x, denom |-> One]
  ELSE [num |-> FromInt(x.m), denom |-> [m |-> 1, e |-> -x.e]]

\* a numeric operand as a rational: a float converted exactly, a rat as it is
AsRat(v) == IF v.tag = "float" THEN ExactRat(v.value) ELSE v.value

\* v is a float-tagged finite number or a rat-tagged rational
IsOperand(v) ==
  IF IsUndefined(v) THEN FALSE
  ELSE IF v.tag = "float"
       THEN IF IsNumber(v.value) THEN IsFinite(v.value) ELSE FALSE
  ELSE IF v.tag = "rat" THEN IsRat(v.value)
  ELSE FALSE

\* C25: add, sub, mul and div applied to two numeric operands give a float
\* only when both are float and a rat otherwise; in the mixed cases the result
\* is the rational operation applied, in the operand order, after the float
\* operand is converted exactly to a rational.
C25_BinopPromotion ==
  \A n \in {Len(calc.stack)} :
    (IF n >= 2 THEN IsOperand(calc.stack[n - 1]) /\ IsOperand(calc.stack[n])
     ELSE FALSE) =>
      \A x \in {calc.stack[n - 1]} : \A y \in {calc.stack[n]} :
      \A name \in {"add", "sub", "mul", "div"} :
        \A r \in {apply(calc.stack, name)} :
        \A want \in {ratF(name, <<AsRat(x), AsRat(y)>>)} :
          (Computed(r) /\ Computed(want)) =>
            IF x.tag = "float" /\ y.tag = "float"
            THEN IF r.ok THEN r.val[Len(r.val)].tag = "float" ELSE FALSE
            ELSE IF want.ok
                 THEN IF r.ok THEN r.val[Len(r.val)] = tag("rat", want.val)
                      ELSE FALSE
                 ELSE r = want

\* the tag of a numeric value matches the kind of its value
WellTagged(v) ==
  IF IsUndefined(v) THEN TRUE
  ELSE IF v.tag = "float" THEN IsNumber(v.value)
  ELSE IF v.tag = "rat" THEN IsRat(v.value)
  ELSE TRUE

\* C26: after any successful operator every numeric stack element's tag
\* matches the kind of its value: float-tagged values are numbers, rat-tagged
\* values are {num, denom} rationals; so for the coercions float and frac.
C26_TagsMatchValues ==
  (\A i \in 1..Len(calc.stack) : WellTagged(calc.stack[i])) =>
    \A name \in AppliedNames :
      \A r \in {operator(calc, name)} :
        r.ok => \A i \in 1..Len(r.val.stack) : WellTagged(r.val.stack[i])

\* C27: for every divisor operator f2, f4, f8, f16 and every float-tagged or
\* rat-tagged value x on top of the stack, the operator succeeds and replaces
\* x with the rat-tagged rational equal to x / d.
C27_DivisorDivides ==
  \A n \in {Len(calc.stack)} :
    (IF n >= 1 THEN IsOperand(calc.stack[n]) ELSE FALSE) =>
      \A name \in Divisors :
        \A r \in {apply(calc.stack, name)} :
        \A x \in {AsRat(calc.stack[n])} :
          Computed(r) =>
            IF r.ok
            THEN \A q \in {r.val[Len(r.val)]} :
                   /\ Len(r.val) = n
                   /\ q.tag = "rat"
                   /\ IsRat(q.value)
                   /\ NMul(NMul(q.value.num, x.denom), FromInt(DivisorOf(name)))
                        = NMul(x.num, q.value.denom)
                   /\ q.value.denom # Zero
            ELSE FALSE

\* a name accepts a stack when the tags of its top arity(name) elements are
\* one of the name's declared signatures
Accepts(stack, name) ==
  \E args \in {split(stack, arities(name)).args} :
    /\ \A i \in 1..Len(args) : ~IsUndefined(args[i])
    /\ [i \in 1..Len(args) |-> args[i].tag] \in Signatures(name)

\* C28: on every reachable stack valid(stack) raises nothing and returns
\* exactly the operator names that accept the stack, the names whose
\* signatures hold the tags of the top arity(name) elements, which are the
\* names apply(stack, name) does not answer with not_implemented.
C28_ValidNames ==
  \A r \in {valid(calc.stack)} :
    IF r.ok
    THEN UNION {r.val[i] : i \in 1..Len(r.val)}
           = {name \in AllNames : Accepts(calc.stack, name)}
    ELSE FALSE

(***************************************************************************)
(* Properties of the rationals the calculator holds.                       *)
(***************************************************************************)
\* a rat-tagged value whose rational has a non-zero denominator; every
\* other value passes
DenomNonZero(v) ==
  IF IsUndefined(v) THEN TRUE
  ELSE IF v.tag # "rat" THEN TRUE
  ELSE IF IsRat(v.value) THEN v.value.denom # Zero
  ELSE TRUE

\* C29: after any sequence of accumulator tokens and calculator actions every
\* rat-tagged value on the stack, on the tape and in defs has a non-zero
\* denominator.
C29_DenomNonZero ==
  /\ \A i \in 1..Len(calc.stack) : DenomNonZero(calc.stack[i])
  /\ \A i \in 1..Len(calc.tape) : DenomNonZero(calc.tape[i])
  /\ \A k \in DOMAIN calc.defs : DenomNonZero(calc.defs[k])

\* a rat-tagged value whose rational is zero: a zero numerator over a
\* non-zero denominator
ZeroRat(v) ==
  IF IsUndefined(v) THEN FALSE
  ELSE IF v.tag # "rat" THEN FALSE
  ELSE IF IsRat(v.value) THEN v.value.num = Zero /\ v.value.denom # Zero
  ELSE FALSE

\* a result that is a raised user error
RaisesUserError(r) == IF r.ok THEN FALSE ELSE r.err \in UserErrors

\* C30: for a zero-valued rational z, inv(z) and div(a, z) signal an error
\* instead of returning a rational, and the operators inv and div whose
\* rat-tagged divisor is z raise a user error.
C30_DivisionByZero ==
  \A n \in {Len(calc.stack)} :
    (IF n >= 1 THEN ZeroRat(calc.stack[n]) ELSE FALSE) =>
      \A z \in {calc.stack[n]} :
      \A a \in {tag("rat", [num |-> One, denom |-> FromInt(2)])} :
        /\ ~rat_inv(z.value).ok
        /\ ~rat_div(a.value, z.value).ok
        /\ RaisesUserError(apply(calc.stack, "inv"))
        /\ RaisesUserError(apply(<<a, z>>, "div"))

(***************************************************************************)
(* Properties of the rational library, checked under SpecCalc at the       *)
(* rationals on the stack of every reachable calculator state.             *)
(***************************************************************************)
\* a rat-tagged stack element holding a rational with a non-zero denominator
ProperRat(v) ==
  IF IsUndefined(v) THEN FALSE
  ELSE IF v.tag # "rat" THEN FALSE
  ELSE IF IsRat(v.value) THEN v.value.denom # Zero
  ELSE FALSE

\* a and b are equal as rationals: a.num * b.denom = b.num * a.denom
SameRat(a, b) == NMul(a.num, b.denom) = NMul(b.num, a.denom)

\* C31: for every rational r with a non-zero denominator, positive or
\* negative, fromProper(toProper(r)) equals r as a rational.
C31_ProperRoundTrip ==
  \A i \in 1..Len(calc.stack) :
    ProperRat(calc.stack[i]) =>
      \A r \in {calc.stack[i].value} :
      \A p \in {toProper(r)} :
        Computed(p) =>
          IF p.ok
          THEN \A q \in {fromProper(p.val)} :
                 IF q.ok THEN SameRat(q.val, r) ELSE FALSE
          ELSE FALSE

\* C32: for every rational r with a non-zero denominator, a negative one
\* included, simplify(r) returns a rational equal in value to r, in lowest
\* terms (gcd(|num|, |denom|) = 1) and with a positive denominator.
C32_SimplifyNormal ==
  \A i \in 1..Len(calc.stack) :
    ProperRat(calc.stack[i]) =>
      \A r \in {calc.stack[i].value} :
      \A s \in {simplify(r)} :
        Computed(s) =>
          IF s.ok
          THEN /\ (IsModelled(NMul(s.val.num, r.denom))
                   /\ IsModelled(NMul(r.num, s.val.denom))) => SameRat(s.val, r)
               /\ gcd(NAbs(s.val.num), NAbs(s.val.denom)) = One
               /\ s.val.denom.m > 0
          ELSE FALSE

\* denominators approx is asked for
ApproxDenoms == {1, 2, 3}

\* the numerator n of the fraction n/d nearest to N/D, the smaller one on a
\* tie: the nearest is the floor of N * d / D or the integer after it
Nearest(N, D, d) ==
  Let(FloorDiv(N * d, D), LAMBDA f:
    IF Abs(N * d - f * D) <= Abs(N * d - (f + 1) * D) THEN f ELSE f + 1)

\* C33: for every rational value, positive, zero or negative, and every
\* integer denominator d >= 1, approx(value, d) returns in lowest terms the
\* rational n/d whose integer n minimizes |value - n/d|, the smallest such n
\* on a tie.
C33_ApproxNearest ==
  \A i \in 1..Len(calc.stack) :
    (IF ProperRat(calc.stack[i])
     THEN IsSmallInt(calc.stack[i].value.num)
          /\ IsSmallInt(calc.stack[i].value.denom)
     ELSE FALSE) =>
      \A r \in {calc.stack[i].value} :
      \A d \in ApproxDenoms :
      \A a \in {approx(r, FromInt(d))} :
        Computed(a) =>
          IF a.ok
          THEN /\ gcd(NAbs(a.val.num), NAbs(a.val.denom)) = One
               /\ SameRat(a.val, [num |-> FromInt(Nearest(IntOf(r.num), IntOf(r.denom), d)),
                                  denom |-> FromInt(d)])
          ELSE FALSE

\* binary orders of magnitude a float on the stack is scaled by
Shifts == {0, 1, 30, 31, 32}

\* a float-tagged, finite, non-zero integer on the stack
IntegerFloat(v) ==
  IF IsUndefined(v) THEN FALSE
  ELSE IF v.tag # "float" THEN FALSE
  ELSE IF IsNumber(v.value)
       THEN IsFinite(v.value) /\ v.value.m # 0 /\ v.value.e >= 0
  ELSE FALSE

\* C34: for every finite float x = mantissa * 2^exponent with an integer
\* mantissa and exponent >= 0, exponents of 31 and more included,
\* fromFloat(x) is the rational x/1 and toFloat(fromFloat(x)) = x.
C34_FromFloatExact ==
  \A i \in 1..Len(calc.stack) :
    IntegerFloat(calc.stack[i]) =>
      \A k \in Shifts :
      \A x \in {[m |-> calc.stack[i].value.m, e |-> calc.stack[i].value.e + k]} :
      \A r \in {fromFloat(x)} :
        Computed(r) =>
          IF r.ok
          THEN /\ r.val = [num |-> x, denom |-> One]
               /\ toFloat(r.val) = Ret(x)
          ELSE FALSE

(***************************************************************************)
(* Properties of the units module, checked under SpecCalc with the         *)
(* non-negative rationals on the stack as quantities of inches.            *)
(***************************************************************************)
UnitLists == {<<"ft", "in">>, <<"in", "ft">>, <<"ft">>}

\* a count as a rational
AsRatio(c) == IF IsRat(c) THEN c ELSE [num |-> c, denom |-> One]

\* the sum of count * factor over the entries of units i.. of a result
RECURSIVE Total(_, _, _)
Total(entries, units, i) ==
  IF i > Len(units) THEN [num |-> Zero, denom |-> One]
  ELSE rat_add(rat_mul(AsRatio(entries[units[i]]), conversions[units[i]]).val,
               Total(entries, units, i + 1)).val

\* a rat-tagged stack element holding a non-negative rational
Quantity(v) ==
  IF ProperRat(v) THEN v.value.num.m >= 0 /\ v.value.denom.m > 0 ELSE FALSE

\* C35: using(q, ...units) expresses a non-negative quantity exactly in the
\* requested units: it returns one entry per requested unit and no other,
\* and the sum of count * factor over the entries equals q's value (18 in as
\* [ft, in] is {ft: 1, in: 6}).
C35_UsingExact ==
  \A i \in 1..Len(calc.stack) :
    Quantity(calc.stack[i]) =>
      \A units \in UnitLists :
      \A r \in {using([value |-> calc.stack[i].value], units)} :
        Computed(r) =>
          IF r.ok
          THEN /\ DOMAIN r.val = {units[j] : j \in 1..Len(units)}
               /\ SameRat(Total(r.val, units, 1), calc.stack[i].value)
          ELSE FALSE

(***************************************************************************)
(* Properties of the reactor, checked under Spec.                          *)
(***************************************************************************)
\* C36: every mutating action invoked through the reactor the application
\* constructs, whether it succeeds or raises a UserError, ends with a render
\* call on the current state.
C36_RenderAfterEveryAction ==
  (last.call.call # "init" /\ last.raised \in UserErrors \cup {"none"}) =>
    rendered

\* C37: when the storage write that follows a successful mutation fails, the
\* in-memory state is exactly the mutated state, its new history entry
\* included, the failure is not handed to the error handler as a failed user
\* action, and nothing is thrown to the caller of the action.
C37_FailedWriteSwallowed ==
  \A c \in Calls \cup {Call0("undo"), Call0("redo")} :
    \A r \in {wrapped(c, state)} :
      r.ok =>
        \A o \in {method_io(c, state, storage, FALSE)} :
          /\ o.state = r.val
          /\ o.raised = "none"
          /\ o.thrown = "none"

(***************************************************************************)
(* Properties of the tape and of the fields an action leaves alone,        *)
(* checked under SpecCalc with every call applied at every reachable       *)
(* state.                                                                  *)
(***************************************************************************)
\* the entries a call's auto-enter appends: the value of a non-empty
\* accumulator
Flushed(c, st) ==
  IF c.call \in {"enter", "operator", "exch", "store"} /\ ~isEmpty(st.accum)
  THEN 1 ELSE 0

\* the entries the claim has a call itself append
StatedOwn(c) == IF c.call \in {"push", "operator", "exch", "store"} THEN 1 ELSE 0

\* the entries a call itself appends: a store that finds fewer than two
\* elements binds nothing and appends nothing
Own(c, st) ==
  IF c.call = "store"
  THEN (IF Len(st.stack) + Flushed(c, st) >= 2 THEN 1 ELSE 0)
  ELSE StatedOwn(c)

\* the tape of r extends tape by a flushed value first and own entries of the
\* call after it
Extends(c, r, own) ==
  \A n \in {Len(calc.tape)} : \A f \in {Flushed(c, calc)} :
    /\ Len(r.tape) = n + f + own
    /\ SubSeq(r.tape, 1, n) = calc.tape
    /\ f = 1 => r.tape[n + 1] = enter(calc).val.tape[n + 1]
    /\ (own = 1 /\ c.call # "push") => r.tape[n + f + 1].tag = "string"
    /\ c.call = "push" => r.tape[n + 1] = c.value

\* C38: the tape is append-only: for every action other than reset the tape
\* before is a prefix of the tape after; each pushed value (push or a flushing
\* enter) and each successful operator, exch or store appends exactly one
\* entry, in order; accumulator tokens, clear and show append nothing.
C38_TapeAppendOnly ==
  \A c \in Calls \ {Call0("reset")} :
    \A r \in {invoke(c, calc)} :
      r.ok => Extends(c, r.val, StatedOwn(c))

\* C38, with the store that binds nothing: as above, store appending "=" only
\* when it finds two elements to bind after its auto-enter.
C38_TapeAppendOnlyBinding ==
  \A c \in Calls \ {Call0("reset")} :
    \A r \in {invoke(c, calc)} :
      r.ok => Extends(c, r.val, Own(c, calc))

\* C38 happens: an operator has flushed the accumulator and left the value
\* and its own name on the tape, in that order.
C38_Witness ==
  /\ last.call = OperatorCall("neg")
  /\ last.raised = "none"
  /\ Len(calc.tape) = 2
  /\ calc.tape[1] = tag("float", FromInt(5))
  /\ calc.tape[2] = tag("string", Str("neg"))
  /\ calc.stack = <<tag("float", FromInt(-5))>>

\* C39: the accumulator tokens the calculator forwards (digit, decimal,
\* letter, num, denom, clear) change only the accum field and leave stack,
\* tape, defs and showing as they were; show(mode) changes only the showing
\* field and leaves stack, tape, defs and accum as they were.
C39_TokenFrame ==
  /\ \A c \in TokenCalls \cup {DigitCall(d) : d \in AllDigits} :
       \A r \in {invoke(c, calc)} :
         r.ok => r.val = [calc EXCEPT !.accum = r.val.accum]
  /\ \A m \in Modes :
       \A r \in {invoke(ShowCall(m), calc)} :
         /\ r.ok
         /\ r.val = [calc EXCEPT !.showing = m]

\* C39 happens: a digit has just been typed on a calculator whose stack and
\* tape hold a value and whose mode is no longer the initial one; only the
\* accumulator took the digit.
C39_Witness ==
  /\ last.call = DigitCall(5)
  /\ last.raised = "none"
  /\ calc.accum = digit(empty, 5).val
  /\ calc.stack = <<tag("float", FromInt(5))>>
  /\ calc.tape = <<tag("float", FromInt(5))>>
  /\ calc.showing # init.showing

(***************************************************************************)
(* Properties of the history, checked under Spec.                          *)
(***************************************************************************)
\* the calls that return leaving the inner state as it is
Idle(c) == \E r \in {invoke(c, state.inner)} : IF r.ok THEN r.val = state.inner ELSE FALSE

\* every wrapped mutating call that returns grows history by one entry, the
\* calls that leave the inner state unchanged included; undo and redo keep
\* the number of recorded states
HistoryGrows ==
  /\ \A c \in Calls : \A r \in {wrapped(c, state)} :
       r.ok => Len(r.val.history) = Len(state.history) + 1
  /\ \A c \in {Call0("undo"), Call0("redo")} : \A r \in {wrapped(c, state)} :
       r.ok => Len(r.val.history) + Len(r.val.undone)
                 = Len(state.history) + Len(state.undone)

\* a mutating action of the reactor that returns adds one entry to the
\* history it found
CountsAction ==
  (last'.raised = "none" /\ last'.call.call \notin {"init", "undo", "redo"}) =>
    Len(state'.history) = Len(state.history) + 1

\* C40: history counts successful actions, not state changes: every wrapped
\* mutating call that returns grows history by exactly one entry even when it
\* leaves the inner state unchanged (enter on an empty accumulator, store
\* with fewer than 2 elements, clear on an empty accumulator, show with the
\* current mode), so that k successful mutating actions without an undo give
\* a history of length k; undo and redo each keep length(history) +
\* length(undone) constant.
C40_HistoryCountsActions == []HistoryGrows /\ [][CountsAction]_vars

\* C40 happens: two calls that changed nothing have returned, the second a
\* store on an empty stack, and the history holds two entries equal to the
\* current inner state.
C40_Witness ==
  /\ last.call = Call0("store")
  /\ last.raised = "none"
  /\ state.inner = init
  /\ state.history = <<init, init>>
  /\ state.undone = << >>
  /\ Idle(Call0("enter")) /\ Idle(Call0("clear")) /\ Idle(ShowCall("basic"))

====
